---- MODULE Spec2Model ----
(***************************************************************************)
(* MuskTracker: the observation store (raw tweets, time buckets, events),  *)
(* the FeatureEngineer, the three forecast models and the rolling backtest *)
(* of the ModelEvaluator.                                                  *)
(*                                                                         *)
(* Time is counted in whole hours since a Monday 00:00 UTC; a datetime is  *)
(* an integer number of hours and a timedelta(hours=h) is h.               *)
(* A float that the code computes is kept exact: a mean is the pair        *)
(* <<sum, n>>, a sample standard deviation is the pair <<num, den>> of the *)
(* variance under its square root and NaN is the pair <<0, 0>>; where a    *)
(* square root has to be taken it is rounded down at a stated precision.   *)
(* A value that may be None is a tuple: <<>> is None and <<x>> is the      *)
(* value x (a pair stands for itself). What a call raised is the           *)
(* exception's name, NoError when it returned.                             *)
(***************************************************************************)
EXTENDS Integers, Sequences, FiniteSets, TLC

VARIABLES
    rawTweets,    \* table raw_tweets: committed RawTweet rows
    timeBuckets,  \* table time_buckets: committed TimeBucket rows
    events,       \* table exogenous_events: committed ExogenousEvent rows
    features,     \* table features: committed Feature rows
    ret,          \* the last call of the store's operations: what it returned or raised
    models,       \* the model instance under use (None while none is constructed)
    mret,         \* the last call on a model instance: what it returned or raised
    bt,           \* the rolling_backtest call in progress: its arguments, locals and result
    instances,    \* model instances side by side: each one's attributes
    dicts,        \* the dict objects the instances' hyperparameters attributes refer to
    iret,         \* the last call on one of the instances
    runs          \* the compute_time_buckets calls in progress side by side: each one's
                  \* locals and what its session holds

storeVars == <<rawTweets, timeBuckets, events, features, ret>>

instanceVars == <<instances, dicts, iret>>

vars == <<rawTweets, timeBuckets, events, features, ret, models, mret, bt,
          instances, dicts, iret, runs>>

None == <<>>
Some(x) == <<x>>
NaN == <<0, 0>>
NoError == "no error"

(***************************************************************************)
(* Bounds of the model.                                                    *)
(***************************************************************************)
\* the longest list of tweets one fetch of the X API returns
MaxBatch == 2

\* the tweets the X API can return: a tweet id has one created_at
ApiTweets ==
    { [id |-> 1, created_at |-> 0],
      [id |-> 2, created_at |-> 167],
      [id |-> 3, created_at |-> 168] }

\* the compute_features calls made: <<reference_time, lookback_days>>
FeatureCalls == {<<168, 7>>, <<168, 0>>, <<169, 1>>}

\* the arguments compute_time_buckets is called with directly
BucketCalls ==
    { <<167, 170, "hourly">>, <<168, 169, "hourly">>, <<144, 192, "daily">>,
      <<169, 169, "hourly">>, <<168, 169, "weekly">>, <<150, 175, "daily">> }

\* the bucket computation that runs beside compute_features: it writes buckets at and
\* after the reference times
FutureBucketCalls == { <<167, 171, "hourly">> }

\* the event stores the feature computation is run against
InitialEventStores ==
    { { [id |-> 1, event_start |-> 168, event_end |-> 170, intensity |-> 10] } }

(***************************************************************************)
(* Helpers on finite sets and sequences.                                   *)
(***************************************************************************)
Max(a, b) == IF a >= b THEN a ELSE b

Abs(x) == IF x < 0 THEN -x ELSE x

SeqsUpTo(S, n) == UNION { [1..k -> S] : k \in 0..n }

RECURSIVE SumSeq(_)
SumSeq(s) == IF s = <<>> THEN 0 ELSE Head(s) + SumSeq(Tail(s))

\* the sum of f(c) * #{rows with count c}: a column sum of a table whose counts are small
MaxCountIn(rows) == IF rows = {} THEN 0 ELSE CHOOSE m \in {r.count : r \in rows} : \A r \in rows : r.count <= m

SumCount(rows) ==
    LET m == MaxCountIn(rows)
        N[c \in 0..m] == (IF c = 0 THEN 0 ELSE N[c - 1]) + c * Cardinality({r \in rows : r.count = c})
    IN N[m]

SumSqCount(rows) ==
    LET m == MaxCountIn(rows)
        N[c \in 0..m] == (IF c = 0 THEN 0 ELSE N[c - 1]) + c * c * Cardinality({r \in rows : r.count = c})
    IN N[m]

(***************************************************************************)
(* db/session.py and db/models.py: a session's writes are flushed and      *)
(* committed together when the with block ends; a unique constraint that   *)
(* the flushed rows break raises IntegrityError and the session is rolled  *)
(* back.                                                                   *)
(***************************************************************************)
BucketKey(b) == <<b.bucket_start, b.granularity>>

\* uq_bucket_granularity: no two rows of the table share (bucket_start, granularity)
UniqueBuckets(rows) == Cardinality({BucketKey(b) : b \in rows}) = Cardinality(rows)

\* get_db_session over the time_buckets table: the committed rows with the session's
\* updates applied and its new rows inserted, or the rollback
CommitBuckets(committed, updated, inserted) ==
    LET updatedKeys == {BucketKey(u) : u \in updated}
        kept == {b \in committed : BucketKey(b) \notin updatedKeys}
        rows == kept \cup updated \cup inserted
    IN IF UniqueBuckets(rows) /\ {BucketKey(i) : i \in inserted} \cap {BucketKey(b) : b \in kept \cup updated} = {}
       THEN [rows |-> rows, error |-> NoError]
       ELSE [rows |-> committed, error |-> "IntegrityError"]

(***************************************************************************)
(* features/__init__.py: FeatureEngineer.compute_time_buckets              *)
(***************************************************************************)
\* the tweets counted into the bucket [lo, hi)
CountTweetsToEnd(tweets, lo, hi) ==
    Cardinality({t \in tweets : t.created_at >= lo /\ t.created_at <= hi /\ t.is_deleted = FALSE})

CountTweets(tweets, lo, hi) ==
    Cardinality({t \in tweets : t.created_at >= lo /\ t.created_at < hi /\ t.is_deleted = FALSE})

BucketDelta(granularity) == IF granularity = "hourly" THEN 1 ELSE 24

\* whether the while loop visits `current`: start_time, start_time + delta, ... below end_time
Visits(current, start_time, end_time, delta) ==
    current >= start_time /\ current < end_time /\ (current - start_time) % delta = 0

\* a loop that runs while current <= end_time
BucketStartsThroughEnd(start_time, end_time, delta) ==
    IF start_time <= end_time
    THEN {start_time + k * delta : k \in 0..((end_time - start_time) \div delta)}
    ELSE {}

\* the values of `current` the while loop visits
BucketStarts(start_time, end_time, delta) ==
    IF start_time < end_time
    THEN {start_time + k * delta : k \in 0..((end_time - start_time - 1) \div delta)}
    ELSE {}

\* the selects of the existing bucket, one per visited key: the committed rows found
ExistingBucketsNone(buckets, start_time, end_time, granularity) == {}

ExistingBuckets(buckets, start_time, end_time, granularity) ==
    {b \in buckets : /\ b.granularity = granularity
                     /\ Visits(b.bucket_start, start_time, end_time, BucketDelta(granularity))}

\* the update branch: the existing row with the recomputed count
UpdatedBucketAdds(existing, count) == [existing EXCEPT !.tweet_count = @ + count]

UpdatedBucket(existing, count) == [existing EXCEPT !.tweet_count = count]

\* the insert branch
NewBucket(current, bucket_end, granularity, count) ==
    [bucket_start |-> current, bucket_end |-> bucket_end,
     granularity |-> granularity, tweet_count |-> count]

\* the whole call on the store (tweets, buckets): every iteration of the loop writes
\* its own key, so the session holds one update or one insert per visited key
ComputeTimeBucketsOn(tweets, buckets, start_time, end_time, granularity) ==
    IF granularity \notin {"hourly", "daily"}
    THEN [rows |-> buckets, error |-> "ValueError", value |-> None]
    ELSE
      LET delta == BucketDelta(granularity)
          visited == BucketStarts(start_time, end_time, delta)
          existing == ExistingBuckets(buckets, start_time, end_time, granularity)
          updated == {UpdatedBucket(b, CountTweets(tweets, b.bucket_start, b.bucket_start + delta)) : b \in existing}
          missing == visited \ {b.bucket_start : b \in existing}
          inserted == {NewBucket(c, c + delta, granularity, CountTweets(tweets, c, c + delta)) : c \in missing}
          done == CommitBuckets(buckets, updated, inserted)
      IN [rows |-> done.rows, error |-> done.error,
          value |-> IF done.error = NoError THEN Some(Cardinality(visited)) ELSE None]

(***************************************************************************)
(* features/__init__.py: FeatureEngineer.get_bucket_counts                 *)
(***************************************************************************)
\* the DataFrame (timestamp, count): one row per bucket of the granularity in
\* [start_time, end_time); the rows' order is that of their timestamps
GetBucketCounts(buckets, start_time, end_time, granularity) ==
    { [timestamp |-> b.bucket_start, count |-> b.tweet_count] :
        b \in {x \in buckets : /\ x.bucket_start >= start_time
                               /\ x.bucket_start < end_time
                               /\ x.granularity = granularity} }

(***************************************************************************)
(* enrich/__init__.py: EventEnricher.get_events_in_window,                 *)
(* compute_window_intensity. An intensity is kept in tenths (0..10).       *)
(***************************************************************************)
\* the events that overlap or touch the window
GetEventsInWindowInclusive(evs, window_start, window_end) ==
    {e \in evs : e.event_start <= window_end /\ e.event_end >= window_start}

GetEventsInWindow(evs, window_start, window_end) ==
    {e \in evs : e.event_start < window_end /\ e.event_end > window_start}

ComputeWindowIntensity(evs, window_start, window_end) ==
    LET found == GetEventsInWindow(evs, window_start, window_end)
    IN IF found = {} THEN <<0, 0>>
       ELSE <<CHOOSE m \in {e.intensity : e \in found} : \A e \in found : e.intensity <= m,
              Cardinality(found)>>

\* the comparison of two datetimes <<hour, tz>>: Python refuses to order a naive
\* datetime against an aware one
Comparable(a, b) == a[2] = b[2]

\* the id the table gives a new row
NextEventId(evs) ==
    LET ids == {0} \cup {e.id : e \in evs}
    IN (CHOOSE m \in ids : \A i \in ids : i <= m) + 1

\* add_event with the order of the times not validated
AddEventOnAnyOrder(evs, event_start, event_end, intensity) ==
    IF ~(0 <= intensity /\ intensity <= 10)
    THEN [rows |-> evs, error |-> "ValueError", value |-> None]
    ELSE [rows |-> evs \cup {[id |-> NextEventId(evs), event_start |-> event_start[1],
                               event_end |-> event_end[1], intensity |-> intensity]},
          error |-> NoError, value |-> Some(NextEventId(evs))]

\* add_event: intensity in tenths; the times are <<hour, tz>> and are stored as UTC
AddEventOn(evs, event_start, event_end, intensity) ==
    IF ~(0 <= intensity /\ intensity <= 10)
    THEN [rows |-> evs, error |-> "ValueError", value |-> None]
    ELSE IF ~Comparable(event_start, event_end)
    THEN [rows |-> evs, error |-> "TypeError", value |-> None]
    ELSE IF event_start[1] >= event_end[1]
    THEN [rows |-> evs, error |-> "ValueError", value |-> None]
    ELSE [rows |-> evs \cup {[id |-> NextEventId(evs), event_start |-> event_start[1],
                               event_end |-> event_end[1], intensity |-> intensity]},
          error |-> NoError, value |-> Some(NextEventId(evs))]

(***************************************************************************)
(* features/__init__.py: _get_lag_count, _get_rolling_mean,                *)
(* _get_rolling_std and compute_features                                   *)
(***************************************************************************)
\* a lag that is 0 where the frame has no row
GetLagCountOrZero(df, ref_time, hours) ==
    LET at == {r \in df : r.timestamp = ref_time - hours}
    IN IF at = {} THEN Some(0) ELSE Some((CHOOSE r \in at : TRUE).count)

\* df.loc[lag_time, "count"], None on a KeyError
GetLagCount(df, ref_time, hours) ==
    LET at == {r \in df : r.timestamp = ref_time - hours}
    IN IF at = {} THEN None ELSE Some((CHOOSE r \in at : TRUE).count)

WindowData(df, ref_time, hours) ==
    {r \in df : r.timestamp >= ref_time - hours /\ r.timestamp < ref_time}

\* the mean of the window's counts as <<sum, n>>
GetRollingMean(df, ref_time, hours) ==
    LET window_data == WindowData(df, ref_time, hours)
    IN IF window_data = {} THEN None
       ELSE <<SumCount(window_data), Cardinality(window_data)>>

\* the sample standard deviation (ddof = 1) of the window's counts, as the variance
\* <<n * sum(x^2) - sum(x)^2, n * (n - 1)>> under its square root
GetRollingStd(df, ref_time, hours) ==
    LET window_data == WindowData(df, ref_time, hours)
        n == Cardinality(window_data)
        s == SumCount(window_data)
    IN IF window_data = {} \/ n < 2 THEN None
       ELSE <<n * SumSqCount(window_data) - s * s, n * (n - 1)>>

\* datetime.hour and datetime.weekday() of an hour count that starts on a Monday
HourOfDay(t) == t % 24

Weekday(t) == (t \div 24) % 7

\* the values compute_features computes from the DataFrame df (lines 165-190)
FeatureValues(df, evs, reference_time) ==
    LET ev == ComputeWindowIntensity(evs, reference_time - 24, reference_time)
    IN [ reference_time |-> reference_time,
         lag_1h |-> GetLagCount(df, reference_time, 1),
         lag_6h |-> GetLagCount(df, reference_time, 6),
         lag_12h |-> GetLagCount(df, reference_time, 12),
         lag_24h |-> GetLagCount(df, reference_time, 24),
         lag_7d |-> GetLagCount(df, reference_time, 24 * 7),
         rolling_mean_24h |-> GetRollingMean(df, reference_time, 24),
         rolling_std_24h |-> GetRollingStd(df, reference_time, 24),
         rolling_mean_7d |-> GetRollingMean(df, reference_time, 24 * 7),
         rolling_std_7d |-> GetRollingStd(df, reference_time, 24 * 7),
         hour_of_day |-> HourOfDay(reference_time),
         day_of_week |-> Weekday(reference_time),
         is_weekend |-> Weekday(reference_time) >= 5,
         event_intensity |-> ev[1],
         events_in_window |-> ev[2] ]

\* the store step (lines 193-239): the select names Feature.reference_time, and the
\* mapped class Feature (db/models.py) has no such attribute (its columns are
\* timestamp, granularity, count_lag_1, ...): evaluating it raises AttributeError inside
\* the with block, the session is rolled back and nothing is written
StoreFeature(stored, values) == [rows |-> stored, error |-> "AttributeError", value |-> None]

\* the whole call on the store: the buckets the call leaves, the values it computed
\* (None where it did not get that far), what it returns and what it raises
ComputeFeaturesOn(tweets, buckets, evs, stored, reference_time, lookback_days) ==
    LET lookback_start == reference_time - 24 * lookback_days
        ensured == ComputeTimeBucketsOn(tweets, buckets, lookback_start, reference_time, "hourly")
        df == GetBucketCounts(ensured.rows, lookback_start, reference_time, "hourly")
        values == FeatureValues(df, evs, reference_time)
        kept == StoreFeature(stored, values)
    IN IF ensured.error # NoError
       THEN [buckets |-> ensured.rows, features |-> stored, values |-> None,
             value |-> None, error |-> ensured.error]
       ELSE IF df = {}
       THEN [buckets |-> ensured.rows, features |-> stored, values |-> None,
             value |-> None, error |-> NoError]
       ELSE [buckets |-> ensured.rows, features |-> kept.rows, values |-> Some(values),
             value |-> kept.value, error |-> kept.error]

(***************************************************************************)
(* ingest/pipeline.py: TweetIngestor.ingest_tweets, on the list `fetched`  *)
(* that the X API client returned. The session is made with autoflush off: *)
(* the select of an existing tweet sees the committed rows only.           *)
(***************************************************************************)
NewTweet(tweet_data) ==
    [tweet_id |-> tweet_data.id, created_at |-> tweet_data.created_at, is_deleted |-> FALSE]

\* an ingest whose rows stay in the table when the commit fails
IngestTweetsOnKeepsAdded(tweets, fetched) ==
    IF fetched = <<>> THEN [rows |-> tweets, value |-> Some(0), error |-> NoError]
    ELSE
      LET added == {i \in 1..Len(fetched) : ~\E t \in tweets : t.tweet_id = fetched[i].id}
          clash == \E i, j \in added : i # j /\ fetched[i].id = fetched[j].id
      IN IF clash
         THEN [rows |-> tweets \cup {NewTweet(fetched[i]) : i \in added},
               value |-> None, error |-> "IntegrityError"]
         ELSE [rows |-> tweets \cup {NewTweet(fetched[i]) : i \in added},
               value |-> Some(Cardinality(added)), error |-> NoError]

IngestTweetsOn(tweets, fetched) ==
    IF fetched = <<>> THEN [rows |-> tweets, value |-> Some(0), error |-> NoError]
    ELSE
      LET added == {i \in 1..Len(fetched) : ~\E t \in tweets : t.tweet_id = fetched[i].id}
          clash == \E i, j \in added : i # j /\ fetched[i].id = fetched[j].id
      IN IF clash THEN [rows |-> tweets, value |-> None, error |-> "IntegrityError"]
         ELSE [rows |-> tweets \cup {NewTweet(fetched[i]) : i \in added},
               value |-> Some(Cardinality(added)), error |-> NoError]

(***************************************************************************)
(* The store's state machine.                                              *)
(***************************************************************************)
NoCall == [op |-> "none", args |-> <<>>, value |-> None, error |-> NoError, values |-> None]

InitStore ==
    /\ rawTweets = {}
    /\ timeBuckets = {}
    /\ events \in InitialEventStores
    /\ features = {}
    /\ ret = NoCall

\* TweetIngestor.ingest_tweets with the list the API client fetched
IngestTweets(fetched) ==
    LET r == IngestTweetsOn(rawTweets, fetched)
    IN /\ rawTweets' = r.rows
       /\ ret' = [op |-> "ingest_tweets", args |-> fetched, value |-> r.value,
                  error |-> r.error, values |-> None]
       /\ UNCHANGED <<timeBuckets, events, features>>

\* FeatureEngineer.compute_time_buckets(start_time, end_time, granularity)
ComputeTimeBuckets(start_time, end_time, granularity) ==
    LET r == ComputeTimeBucketsOn(rawTweets, timeBuckets, start_time, end_time, granularity)
    IN /\ timeBuckets' = r.rows
       /\ ret' = [op |-> "compute_time_buckets", args |-> <<start_time, end_time, granularity>>,
                  value |-> r.value, error |-> r.error, values |-> None]
       /\ UNCHANGED <<rawTweets, events, features>>

\* FeatureEngineer.compute_features(reference_time, lookback_days)
ComputeFeatures(reference_time, lookback_days) ==
    LET r == ComputeFeaturesOn(rawTweets, timeBuckets, events, features,
                               reference_time, lookback_days)
    IN /\ timeBuckets' = r.buckets
       /\ features' = r.features
       /\ ret' = [op |-> "compute_features", args |-> <<reference_time, lookback_days>>,
                  value |-> r.value, error |-> r.error, values |-> r.values]
       /\ UNCHANGED <<rawTweets, events>>

(***************************************************************************)
(* features/__init__.py: FeatureEngineer.compute_features_bulk             *)
(***************************************************************************)
\* the default of compute_features' lookback_days, which the bulk loop leaves in place
DefaultLookbackDays == 14

\* lines 284-292 from `current` on: the while loop, with the features counted and the
\* reference times computed so far. An exception of compute_features leaves the loop
\* and the function; the buckets compute_features committed before it stay.
RECURSIVE BulkFrom(_, _, _, _, _, _, _, _, _)
BulkFrom(tweets, buckets, evs, stored, current, end_time, granularity_hours, count, computed) ==
    IF current > end_time
    THEN [buckets |-> buckets, features |-> stored, value |-> Some(count),
          error |-> NoError, computed |-> computed]
    ELSE
      LET r == ComputeFeaturesOn(tweets, buckets, evs, stored, current, DefaultLookbackDays)
      IN IF r.error # NoError
         THEN [buckets |-> r.buckets, features |-> r.features, value |-> None,
               error |-> r.error, computed |-> Append(computed, current)]
         ELSE BulkFrom(tweets, r.buckets, evs, r.features, current + granularity_hours,
                       end_time, granularity_hours,
                       IF r.value # None THEN count + 1 ELSE count,
                       Append(computed, current))

ComputeFeaturesBulkOn(tweets, buckets, evs, stored, start_time, end_time, granularity_hours) ==
    BulkFrom(tweets, buckets, evs, stored, start_time, end_time, granularity_hours, 0, <<>>)

\* the compute_features_bulk calls made: <<start_time, end_time, granularity_hours>>
BulkCalls ==
    {<<168, 170, 1>>, <<168, 172, 2>>, <<170, 168, 1>>, <<169, 168, 0>>, <<168, 168, 0>>,
     <<169, 169, -1>>}

\* FeatureEngineer.compute_features_bulk(start_time, end_time, granularity_hours); the
\* reference times it called compute_features on are kept with the outcome
ComputeFeaturesBulk(start_time, end_time, granularity_hours) ==
    LET r == ComputeFeaturesBulkOn(rawTweets, timeBuckets, events, features,
                                   start_time, end_time, granularity_hours)
    IN /\ timeBuckets' = r.buckets
       /\ features' = r.features
       /\ ret' = [op |-> "compute_features_bulk",
                  args |-> <<start_time, end_time, granularity_hours>>,
                  value |-> r.value, error |-> r.error, values |-> Some(r.computed)]
       /\ UNCHANGED <<rawTweets, events>>

\* the lists ingested between the bulk calls
BulkBatches ==
    { <<[id |-> 2, created_at |-> 167]>>, <<[id |-> 3, created_at |-> 168]>>,
      <<[id |-> 1, created_at |-> 0], [id |-> 2, created_at |-> 167]>> }

NextBulk ==
    \/ \E fetched \in BulkBatches : IngestTweets(fetched)
    \/ \E c \in BulkCalls : ComputeFeaturesBulk(c[1], c[2], c[3])

(***************************************************************************)
(* compute_time_buckets statement by statement. The session is not         *)
(* autoflushed: its selects read the committed rows, its updates and new   *)
(* rows reach the table when get_db_session commits at the end of the with *)
(* block.                                                                  *)
(***************************************************************************)
RunIds == {1, 2}

RunCalls == {<<166, 169, "hourly">>, <<167, 170, "hourly">>, <<167, 168, "hourly">>}

NoRun ==
    [pc |-> "idle", args |-> <<>>, current |-> 0, bucket_count |-> 0,
     updated |-> {}, inserted |-> {}, error |-> NoError, value |-> None]

NoRuns == runs = [r \in RunIds |-> NoRun]

\* the tweets are ingested, no bucket is computed yet
InitRunsStore ==
    /\ rawTweets = {NewTweet(t) : t \in ApiTweets}
    /\ timeBuckets = {}
    /\ events \in InitialEventStores
    /\ features = {}
    /\ ret = NoCall

\* the call up to the with statement
BeginRun(r, start_time, end_time, granularity) ==
    /\ runs[r].pc \in {"idle", "done"}
    /\ runs' = [runs EXCEPT ![r] =
                  IF granularity \notin {"hourly", "daily"}
                  THEN [NoRun EXCEPT !.pc = "done", !.error = "ValueError",
                                     !.args = <<start_time, end_time, granularity>>]
                  ELSE [NoRun EXCEPT !.pc = "loop", !.current = start_time,
                                     !.args = <<start_time, end_time, granularity>>]]
    /\ UNCHANGED timeBuckets

\* one iteration of the while loop: the count, the select of the existing bucket, and
\* the update of the row found or the add of a new one
LoopIteration(r) ==
    LET run == runs[r]
        granularity == run.args[3]
        bucket_end == run.current + BucketDelta(granularity)
        count == CountTweets(rawTweets, run.current, bucket_end)
        existing == ExistingBuckets(timeBuckets, run.current, bucket_end, granularity)
    IN /\ run.pc = "loop"
       /\ run.current < run.args[2]
       /\ runs' = [runs EXCEPT ![r] =
                     [run EXCEPT
                        !.updated = @ \cup {UpdatedBucket(b, count) : b \in existing},
                        !.inserted = IF existing = {}
                                     THEN @ \cup {NewBucket(run.current, bucket_end, granularity, count)}
                                     ELSE @,
                        !.bucket_count = @ + 1,
                        !.current = bucket_end]]
       /\ UNCHANGED timeBuckets

\* the loop is left and get_db_session commits, or rolls back and re-raises
EndOfSession(r) ==
    LET run == runs[r]
        done == CommitBuckets(timeBuckets, run.updated, run.inserted)
    IN /\ run.pc = "loop"
       /\ run.current >= run.args[2]
       /\ timeBuckets' = done.rows
       /\ runs' = [runs EXCEPT ![r] =
                     [run EXCEPT !.pc = "done", !.error = done.error,
                                 !.updated = {}, !.inserted = {},
                                 !.value = IF done.error = NoError
                                           THEN Some(run.bucket_count) ELSE None]]

NextRuns ==
    \/ \E r \in RunIds, c \in RunCalls : BeginRun(r, c[1], c[2], c[3])
    \/ \E r \in RunIds : LoopIteration(r)
    \/ \E r \in RunIds : EndOfSession(r)

\* the lists ingested while buckets are computed
SessionBatches ==
    { <<[id |-> 4, created_at |-> 167]>>,
      <<[id |-> 1, created_at |-> 0], [id |-> 4, created_at |-> 167]>>,
      <<[id |-> 5, created_at |-> 168], [id |-> 6, created_at |-> 167],
        [id |-> 6, created_at |-> 167]>> }

\* compute_time_buckets runs and ingest_tweets calls, each in its own session
NextSessions ==
    \/ NextRuns /\ UNCHANGED <<rawTweets, events, features, ret>>
    \/ \E fetched \in SessionBatches : IngestTweets(fetched) /\ UNCHANGED runs

(***************************************************************************)
(* The event store under add_event and compute_window_intensity.           *)
(***************************************************************************)
MaxEvents == 3

\* the add_event calls made: <<event_start, event_end, intensity>>
EventCalls ==
    { <<<<166, "utc">>, <<168, "utc">>, 5>>, <<<<169, "naive">>, <<171, "naive">>, 10>>,
      <<<<167, "utc">>, <<169, "utc">>, 0>>,
      <<<<168, "utc">>, <<168, "utc">>, 5>>, <<<<170, "utc">>, <<169, "utc">>, 0>>,
      <<<<167, "utc">>, <<169, "utc">>, 11>>, <<<<167, "utc">>, <<169, "utc">>, -1>>,
      <<<<170, "naive">>, <<169, "naive">>, 12>>, <<<<167, "naive">>, <<169, "utc">>, 5>> }

\* the compute_window_intensity calls made: <<window_start, window_end>>
WindowCalls == {<<168, 170>>, <<160, 166>>, <<167, 168>>, <<169, 169>>, <<171, 165>>}

\* the tables of a new database
InitEventStore ==
    /\ rawTweets = {}
    /\ timeBuckets = {}
    /\ events = {}
    /\ features = {}
    /\ ret = NoCall

AddEvent(event_start, event_end, intensity) ==
    LET r == AddEventOn(events, event_start, event_end, intensity)
    IN /\ Cardinality(r.rows) <= MaxEvents
       /\ events' = r.rows
       /\ ret' = [op |-> "add_event", args |-> <<event_start, event_end, intensity>>,
                  value |-> r.value, error |-> r.error, values |-> None]
       /\ UNCHANGED <<rawTweets, timeBuckets, features>>

ComputeWindowIntensityOf(window_start, window_end) ==
    /\ ret' = [op |-> "compute_window_intensity", args |-> <<window_start, window_end>>,
               value |-> Some(ComputeWindowIntensity(events, window_start, window_end)),
               error |-> NoError, values |-> None]
    /\ UNCHANGED <<rawTweets, timeBuckets, events, features>>

NextEvents ==
    \/ \E c \in EventCalls : AddEvent(c[1], c[2], c[3])
    \/ \E w \in WindowCalls : ComputeWindowIntensityOf(w[1], w[2])

NextBuckets ==
    \/ \E fetched \in SeqsUpTo(ApiTweets, MaxBatch) : IngestTweets(fetched)
    \/ \E c \in BucketCalls : ComputeTimeBuckets(c[1], c[2], c[3])

NextFeatures ==
    \/ \E fetched \in SeqsUpTo(ApiTweets, MaxBatch) : IngestTweets(fetched)
    \/ \E c \in FutureBucketCalls : ComputeTimeBuckets(c[1], c[2], c[3])
    \/ \E c \in FeatureCalls : ComputeFeatures(c[1], c[2])

(***************************************************************************)
(* models/base.py: BaseModel.compute_metrics. rmse is kept in thousandths  *)
(* (the floor of 1000 * sqrt(mse)) over 1000; mae and mape are exact.      *)
(***************************************************************************)
\* np.sqrt, rounded down: the largest r with r * r <= x
RECURSIVE ISqrt(_)
ISqrt(x) ==
    IF x < 2 THEN x
    ELSE LET s == 2 * ISqrt(x \div 4) IN IF (s + 1) * (s + 1) <= x THEN s + 1 ELSE s

RECURSIVE SumOver(_, _)
\* the sum of f[i] over the indices in idx
SumOver(f, idx) ==
    IF idx = {} THEN 0
    ELSE LET i == CHOOSE j \in idx : TRUE IN f[i] + SumOver(f, idx \ {i})

RECURSIVE ProdOver(_, _)
ProdOver(f, idx) ==
    IF idx = {} THEN 1
    ELSE LET i == CHOOSE j \in idx : TRUE IN f[i] * ProdOver(f, idx \ {i})

\* mean_absolute_error
MeanAbsoluteErrorSigned(y_true, y_pred) ==
    <<SumOver([i \in 1..Len(y_true) |-> y_true[i] - y_pred[i]], 1..Len(y_true)), Len(y_true)>>

\* each true value against the prediction of the next entry
MeanAbsoluteErrorShifted(y_true, y_pred) ==
    <<SumOver([i \in 1..Len(y_true) |-> Abs(y_true[i] - y_pred[(i % Len(y_pred)) + 1])],
              1..Len(y_true)), Len(y_true)>>

MeanAbsoluteError(y_true, y_pred) ==
    <<SumOver([i \in 1..Len(y_true) |-> Abs(y_true[i] - y_pred[i])], 1..Len(y_true)), Len(y_true)>>

\* np.sqrt(mean_squared_error)
RootMeanSquaredError(y_true, y_pred) ==
    LET sq == SumOver([i \in 1..Len(y_true) |-> (y_true[i] - y_pred[i]) * (y_true[i] - y_pred[i])],
                      1..Len(y_true))
    IN <<ISqrt((1000000 * sq) \div Len(y_true)), 1000>>

\* a mean over all the entries, those with y_true = 0 counted as without error
MeanAbsolutePercentageErrorOverAll(y_true, y_pred) ==
    LET mask == {i \in 1..Len(y_true) : y_true[i] > 0}
        den == ProdOver(y_true, mask)
        num == SumOver([i \in mask |-> Abs(y_true[i] - y_pred[i]) * (den \div y_true[i])], mask)
    IN <<100 * num, den * Len(y_true)>>

\* the mean of |y_true - y_pred| / y_true over the entries with y_true > 0, times 100
MeanAbsolutePercentageError(y_true, y_pred) ==
    LET mask == {i \in 1..Len(y_true) : y_true[i] > 0}
        den == ProdOver(y_true, mask)
        num == SumOver([i \in mask |-> Abs(y_true[i] - y_pred[i]) * (den \div y_true[i])], mask)
    IN IF mask # {} THEN <<100 * num, den * Cardinality(mask)>> ELSE NaN

\* sklearn refuses arrays of different lengths, arrays with no sample and arrays that
\* hold NaN; y_pred is the array's values and whether all of them are numbers (finite)
ComputeMetricsOn(y_true, y_pred, finite) ==
    IF Len(y_true) # Len(y_pred) \/ Len(y_true) = 0 \/ ~finite
    THEN [error |-> "ValueError", value |-> None]
    ELSE [error |-> NoError,
          value |-> Some([rmse |-> RootMeanSquaredError(y_true, y_pred),
                          mae |-> MeanAbsoluteError(y_true, y_pred),
                          mape |-> MeanAbsolutePercentageError(y_true, y_pred)])]

(***************************************************************************)
(* models: the three variants. The timestamps a caller passes are Python   *)
(* datetime objects (kind "datetime": cli/forecast.py's forecast_times) or *)
(* a numpy datetime64 array (kind "datetime64": DataFrame column .values,  *)
(* as rolling_backtest and the forecast command pass to fit). A numpy      *)
(* datetime64 has no attribute hour and the difference of two has no       *)
(* total_seconds(): reading either raises AttributeError.                  *)
(* What statsmodels does is outside the repository: a call into it (lib)   *)
(* either raises or returns numbers, and the numbers it returns are one of *)
(* a few choices.                                                          *)
(***************************************************************************)
Variants == {"hawkes", "negative_binomial", "sarimax"}

EmptyDict == <<>>

\* BaseModel.__init__ and the variant's __init__
NewModel(variant) ==
    IF variant = "hawkes"
    THEN [name |-> "hawkes", is_fitted |-> FALSE, hyperparameters |-> EmptyDict,
          decay |-> <<1, 1>>, baseline |-> <<0, 1>>, alpha |-> <<0, 1>>]
    ELSE IF variant = "negative_binomial"
    THEN [name |-> "negative_binomial", is_fitted |-> FALSE, hyperparameters |-> EmptyDict,
          model |-> None, result |-> None, alpha |-> <<1, 1>>]
    ELSE [name |-> "sarimax", is_fitted |-> FALSE, hyperparameters |-> EmptyDict,
          order |-> <<2, 0, 2>>, seasonal_order |-> <<1, 0, 1, 24>>,
          model |-> None, result |-> None]

Min(a, b) == IF a <= b THEN a ELSE b

\* HawkesModel._counts_to_events on datetime objects: the event times in seconds,
\* sorted; bucket k with count c > 0 gives delta + (i / c) * 3600 for i = 0..c-1
BucketEvents(delta, count) ==
    IF count > 0 THEN [i \in 1..count |-> delta + ((i - 1) * 3600) \div count] ELSE <<>>

RECURSIVE EventsFrom(_, _, _)
EventsFrom(timestamps, counts, k) ==
    IF k > Min(Len(timestamps), Len(counts)) THEN <<>>
    ELSE BucketEvents((timestamps[k] - timestamps[1]) * 3600, counts[k])
           \o EventsFrom(timestamps, counts, k + 1)

\* the event times in the order of the buckets
CountsToEventsUnsorted(timestamps, counts) == EventsFrom(timestamps, counts, 1)

CountsToEvents(timestamps, counts) ==
    SortSeq(EventsFrom(timestamps, counts, 1), LAMBDA x, y : x < y)

HawkesMinEvents == 10

\* HawkesModel.fit. Line 100 takes (e - events[0]).total_seconds() of event times that
\* _counts_to_events returned as floats: it raises AttributeError whenever the check of
\* the 10 events has passed, so no call gets to the optimizer and none returns.
HawkesFit(self, data) ==
    IF Len(data.timestamps) = 0
    THEN [state |-> self, error |-> "IndexError"]
    ELSE IF data.kind = "datetime64" /\ Len(data.counts) > 0
    THEN [state |-> self, error |-> "AttributeError"]
    ELSE IF Len(CountsToEvents(data.timestamps, data.counts)) < HawkesMinEvents
    THEN [state |-> self, error |-> "ValueError"]
    ELSE [state |-> self, error |-> "AttributeError"]

\* NegativeBinomialModel._create_time_features reads ts.hour of every timestamp
TimeFeaturesRaise(kind, timestamps) == kind = "datetime64" /\ Len(timestamps) > 0

\* a fit that marks the instance fitted before it calls the library
NegativeBinomialFitMarksFirst(self, data, lib) ==
    IF TimeFeaturesRaise(data.kind, data.timestamps)
    THEN [state |-> self, error |-> "AttributeError"]
    ELSE IF lib.raises = "init"
    THEN [state |-> [self EXCEPT !.is_fitted = TRUE], error |-> "LibraryError"]
    ELSE IF lib.raises = "fit"
    THEN [state |-> [self EXCEPT !.is_fitted = TRUE, !.model = Some([endog |-> data.counts])],
          error |-> "LibraryError"]
    ELSE [state |-> [self EXCEPT
                       !.model = Some([endog |-> data.counts]),
                       !.result = Some([trained_on |-> data, estimate |-> lib.estimate]),
                       !.alpha = <<lib.estimate, 1>>,
                       !.is_fitted = TRUE,
                       !.hyperparameters = Some([alpha |-> <<lib.estimate, 1>>,
                                                 n_features |-> 6 + lib.constant,
                                                 log_likelihood |-> <<-lib.estimate, 1>>])],
          error |-> NoError]

\* NegativeBinomialModel.fit without exog; sm.add_constant adds its column (lib.constant
\* is 1) unless the six time features already hold a constant one
NegativeBinomialFit(self, data, lib) ==
    IF TimeFeaturesRaise(data.kind, data.timestamps)
    THEN [state |-> self, error |-> "AttributeError"]
    ELSE IF lib.raises = "init"
    THEN [state |-> self, error |-> "LibraryError"]
    ELSE IF lib.raises = "fit"
    THEN [state |-> [self EXCEPT !.model = Some([endog |-> data.counts])],
          error |-> "LibraryError"]
    ELSE [state |-> [self EXCEPT
                       !.model = Some([endog |-> data.counts]),
                       !.result = Some([trained_on |-> data, estimate |-> lib.estimate]),
                       !.alpha = <<lib.estimate, 1>>,
                       !.is_fitted = TRUE,
                       !.hyperparameters = Some([alpha |-> <<lib.estimate, 1>>,
                                                 n_features |-> 6 + lib.constant,
                                                 log_likelihood |-> <<-lib.estimate, 1>>])],
          error |-> NoError]

\* SARIMAXModel.fit without exog
SarimaxFit(self, data, lib) ==
    IF Len(data.timestamps) # Len(data.counts)
    THEN [state |-> self, error |-> "ValueError"]
    ELSE IF lib.raises = "init"
    THEN [state |-> self, error |-> "LibraryError"]
    ELSE IF lib.raises = "fit"
    THEN [state |-> [self EXCEPT !.model = Some([endog |-> data.counts])],
          error |-> "LibraryError"]
    ELSE [state |-> [self EXCEPT
                       !.model = Some([endog |-> data.counts]),
                       !.result = Some([trained_on |-> data, estimate |-> lib.estimate]),
                       !.is_fitted = TRUE,
                       !.hyperparameters = Some([order |-> self.order,
                                                 seasonal_order |-> self.seasonal_order,
                                                 aic |-> <<2 * lib.estimate, 1>>,
                                                 bic |-> <<3 * lib.estimate, 1>>,
                                                 log_likelihood |-> <<-lib.estimate, 1>>])],
          error |-> NoError]

ModelFit(self, data, lib) ==
    IF self.name = "hawkes" THEN HawkesFit(self, data)
    ELSE IF self.name = "negative_binomial" THEN NegativeBinomialFit(self, data, lib)
    ELSE SarimaxFit(self, data, lib)

\* the guard that opens every predict
NotFittedNever(self) == FALSE

NotFitted(self) ==
    IF self.name = "hawkes" THEN ~self.is_fitted
    ELSE ~self.is_fitted \/ self.result = None

\* 1.96 * sqrt(variance), rounded down
Band(variance) == (196 * ISqrt(10000 * variance)) \div 10000

\* HawkesModel.predict: the baseline at every timestamp (rounded down to a whole count)
HawkesPredict(self, timestamps) ==
    LET baseline == self.baseline[1] \div self.baseline[2]
        excitation == IF self.decay[1] > 0
                      THEN (self.alpha[1] * self.decay[2]) \div (self.alpha[2] * self.decay[1])
                      ELSE 0
        band == Band(baseline * (1 + excitation))
    IN [error |-> NoError,
        value |-> Some([predictions |-> [i \in 1..Len(timestamps) |-> baseline],
                        lower |-> [i \in 1..Len(timestamps) |-> Max(baseline - band, 0)],
                        upper |-> [i \in 1..Len(timestamps) |-> baseline + band],
                        finite |-> TRUE])]

\* NegativeBinomialModel.predict without exog: lib.forecast is result.predict(X), the
\* mean of a count distribution and so never negative
NegativeBinomialPredict(self, kind, timestamps, lib) ==
    IF TimeFeaturesRaise(kind, timestamps)
    THEN [error |-> "AttributeError", value |-> None]
    ELSE IF lib.raises # "no"
    THEN [error |-> "LibraryError", value |-> None]
    ELSE LET band(mu) == Band(mu + (self.alpha[1] * mu * mu) \div self.alpha[2])
         IN [error |-> NoError,
             value |-> Some([predictions |-> lib.forecast,
                             lower |-> [i \in 1..Len(timestamps) |->
                                          Max(lib.forecast[i] - band(lib.forecast[i]), 0)],
                             upper |-> [i \in 1..Len(timestamps) |->
                                          lib.forecast[i] + band(lib.forecast[i])],
                             finite |-> lib.finite])]

\* SARIMAXModel.predict without exog: lib.forecast is forecast.predicted_mean, and the
\* confidence interval lies lib.spread below and above it; all three are clamped at 0
SarimaxPredict(self, timestamps, lib) ==
    IF lib.raises # "no"
    THEN [error |-> "LibraryError", value |-> None]
    ELSE [error |-> NoError,
          value |-> Some([predictions |-> [i \in 1..Len(timestamps) |-> Max(lib.forecast[i], 0)],
                          lower |-> [i \in 1..Len(timestamps) |-> Max(lib.forecast[i] - lib.spread, 0)],
                          upper |-> [i \in 1..Len(timestamps) |-> Max(lib.forecast[i] + lib.spread, 0)],
                          finite |-> lib.finite])]

ModelPredict(self, kind, timestamps, lib) ==
    IF NotFitted(self) THEN [error |-> "RuntimeError", value |-> None]
    ELSE IF self.name = "hawkes" THEN HawkesPredict(self, timestamps)
    ELSE IF self.name = "negative_binomial" THEN NegativeBinomialPredict(self, kind, timestamps, lib)
    ELSE SarimaxPredict(self, timestamps, lib)

(***************************************************************************)
(* A model instance and the calls made on it. models is the instance (None *)
(* while none has been constructed). mret is the last call: the instance   *)
(* as it was before the call, what the call returned or raised, and        *)
(* whether a fit has returned (succeeded) or raised (failed) on the        *)
(* instance so far.                                                        *)
(***************************************************************************)
MaxEstimate == 1

FitInputs ==
    { [kind |-> "datetime", timestamps |-> <<>>, counts |-> <<>>],
      [kind |-> "datetime", timestamps |-> <<0, 1>>, counts |-> <<1, 2>>],
      [kind |-> "datetime", timestamps |-> <<0, 1>>, counts |-> <<4, 6>>],
      [kind |-> "datetime64", timestamps |-> <<0, 1>>, counts |-> <<4, 6>>],
      [kind |-> "datetime", timestamps |-> <<1, 0, 2>>, counts |-> <<7, 3, 0>>] }

LibraryFits ==
    { [raises |-> r, estimate |-> 0, constant |-> 0] : r \in {"init", "fit"} }
      \cup { [raises |-> "no", estimate |-> e, constant |-> c] : e \in 1..MaxEstimate, c \in {0, 1} }

PredictInputs ==
    { [kind |-> "datetime", timestamps |-> <<2, 3>>],
      [kind |-> "datetime64", timestamps |-> <<2>>],
      [kind |-> "datetime", timestamps |-> <<>>] }

ForecastValues == {-1, 0, 3}

\* what the library's forecast of n steps can be: statsmodels' count model predicts a
\* mean, which is never negative; its state space forecast is any number; either can
\* come out as NaN, and then finite is FALSE and the values stand for nothing
LibraryForecasts(variant, n) ==
    { [raises |-> "yes", forecast |-> <<>>, spread |-> 0, finite |-> TRUE] }
      \cup { [raises |-> "no", forecast |-> f, spread |-> 2, finite |-> TRUE] :
               f \in [1..n -> IF variant = "negative_binomial"
                              THEN {x \in ForecastValues : x >= 0} ELSE ForecastValues] }
      \cup { [raises |-> "no", forecast |-> [k \in 1..n |-> 0], spread |-> 0, finite |-> FALSE] }

MetricInputs ==
    { <<<<1, 0>>, <<0, 2>>, TRUE>>, <<<<0>>, <<1>>, TRUE>>, <<<<2, 4>>, <<3, 3>>, TRUE>>,
      <<<<>>, <<>>, TRUE>>, <<<<1>>, <<1, 2>>, TRUE>>, <<<<1>>, <<0>>, FALSE>>,
      <<<<0, 0>>, <<1, 0>>, TRUE>>, <<<<0>>, <<0>>, FALSE>>, <<<<0, 3, 4>>, <<5, 0, 5>>, TRUE>>,
      <<<<2, 4>>, <<2, 4>>, TRUE>>, <<<<3>>, <<3>>, TRUE>> }

NoModelCall ==
    [op |-> "none", args |-> <<>>, error |-> NoError, value |-> None, before |-> None,
     succeeded |-> FALSE, failed |-> FALSE]

NoModel == models = None /\ mret = NoModelCall

\* cli/train.py: the instance the command constructs for a variant
InitModels ==
    /\ \E variant \in Variants : models = NewModel(variant)
    /\ mret = NoModelCall

Fit(data, lib) ==
    LET r == ModelFit(models, data, lib) IN
    /\ models' = r.state
    /\ mret' = [mret EXCEPT
                  !.op = "fit", !.args = <<data>>, !.error = r.error, !.value = None,
                  !.before = Some(models),
                  !.succeeded = @ \/ r.error = NoError,
                  !.failed = @ \/ r.error # NoError]

Predict(input, lib) ==
    LET r == ModelPredict(models, input.kind, input.timestamps, lib) IN
    /\ mret' = [mret EXCEPT
                  !.op = "predict", !.args = <<>>, !.error = r.error, !.value = r.value,
                  !.before = Some(models)]
    /\ UNCHANGED models

GetHyperparameters ==
    /\ mret' = [mret EXCEPT
                  !.op = "get_hyperparameters", !.args = <<>>, !.error = NoError,
                  !.value = Some(models.hyperparameters), !.before = Some(models)]
    /\ UNCHANGED models

ComputeMetrics(y_true, y_pred, finite) ==
    LET r == ComputeMetricsOn(y_true, y_pred, finite) IN
    /\ mret' = [mret EXCEPT
                  !.op = "compute_metrics", !.args = <<y_true, y_pred, finite>>, !.error = r.error, !.value = r.value,
                  !.before = Some(models)]
    /\ UNCHANGED models

(***************************************************************************)
(* Instances side by side. An instance's hyperparameters attribute refers  *)
(* to a dict object; whether two instances can see each other's state is a *)
(* matter of which objects their attributes refer to.                      *)
(***************************************************************************)
InstanceIds == {1, 2}

Addresses == 1..(Cardinality(InstanceIds) + 1)

\* a dict every instance shares
NewDictShared(used) == 1

\* a dict display: an object no attribute refers to yet
NewDict(used) == CHOOSE a \in Addresses \ used : \A b \in Addresses \ used : a <= b

Referred(objects) == {objects[i].hyperparameters : i \in DOMAIN objects}

\* the attributes of an instance, the dict it refers to read through
StateOf(objects, heap, i) == [objects[i] EXCEPT !.hyperparameters = heap[@]]

\* the dicts no instance refers to any more are collected
Collect(objects, heap) ==
    [a \in Addresses |-> IF a \in Referred(objects) THEN heap[a] ELSE EmptyDict]

NoInstanceCall == [op |-> "none", instance |-> 0, error |-> NoError]

NoInstances == instances = <<>> /\ dicts = <<>> /\ iret = NoInstanceCall

\* the instances are constructed one after the other, each __init__ binding
\* self.hyperparameters to its own {}
Construct(objects, variant) ==
    Append(objects, [NewModel(variant) EXCEPT !.hyperparameters = NewDict(Referred(objects))])

InstancePairs ==
    {<<"negative_binomial", "negative_binomial">>, <<"sarimax", "negative_binomial">>,
     <<"hawkes", "sarimax">>}

InstanceFitInputs ==
    { [kind |-> "datetime", timestamps |-> <<0, 1>>, counts |-> <<1, 2>>],
      [kind |-> "datetime64", timestamps |-> <<0, 1>>, counts |-> <<4, 6>>] }

InstancePredictInputs == { [kind |-> "datetime", timestamps |-> <<2>>] }

InstanceMetricInputs == { <<<<2, 4>>, <<3, 3>>, TRUE>>, <<<<>>, <<>>, TRUE>> }

InitInstances ==
    /\ \E v \in InstancePairs : instances = Construct(Construct(<<>>, v[1]), v[2])
    /\ dicts = [a \in Addresses |-> EmptyDict]
    /\ iret = NoInstanceCall

\* fit on instance i: its attributes are assigned as fit assigns them, and where fit
\* ends with self.hyperparameters = {...} the attribute is bound to a new dict
FitInstance(i, data, lib) ==
    LET self == StateOf(instances, dicts, i)
        r == ModelFit(self, data, lib)
        rebound == r.error = NoError
        a == IF rebound THEN NewDict(Referred(instances)) ELSE instances[i].hyperparameters
        objects == [instances EXCEPT ![i] = [r.state EXCEPT !.hyperparameters = a]]
    IN /\ instances' = objects
       /\ dicts' = Collect(objects, IF rebound THEN [dicts EXCEPT ![a] = r.state.hyperparameters]
                                    ELSE dicts)
       /\ iret' = [op |-> "fit", instance |-> i, error |-> r.error]

PredictInstance(i, input, lib) ==
    LET r == ModelPredict(StateOf(instances, dicts, i), input.kind, input.timestamps, lib) IN
    /\ iret' = [op |-> "predict", instance |-> i, error |-> r.error]
    /\ UNCHANGED <<instances, dicts>>

GetHyperparametersOfInstance(i) ==
    /\ iret' = [op |-> "get_hyperparameters", instance |-> i, error |-> NoError]
    /\ UNCHANGED <<instances, dicts>>

ComputeMetricsOnInstance(i, y_true, y_pred, finite) ==
    LET r == ComputeMetricsOn(y_true, y_pred, finite) IN
    /\ iret' = [op |-> "compute_metrics", instance |-> i, error |-> r.error]
    /\ UNCHANGED <<instances, dicts>>

NextInstances ==
    \/ \E i \in InstanceIds, data \in InstanceFitInputs, lib \in LibraryFits :
         FitInstance(i, data, lib)
    \/ \E i \in InstanceIds, input \in InstancePredictInputs :
         \E lib \in LibraryForecasts(instances[i].name, Len(input.timestamps)) :
           PredictInstance(i, input, lib)
    \/ \E i \in InstanceIds : GetHyperparametersOfInstance(i)
    \/ \E i \in InstanceIds, m \in InstanceMetricInputs :
         ComputeMetricsOnInstance(i, m[1], m[2], m[3])

NextModel ==
    \/ \E data \in FitInputs, lib \in LibraryFits : Fit(data, lib)
    \/ \E input \in PredictInputs :
         \E lib \in LibraryForecasts(models.name, Len(input.timestamps)) : Predict(input, lib)
    \/ GetHyperparameters
    \/ \E m \in MetricInputs : ComputeMetrics(m[1], m[2], m[3])

(***************************************************************************)
(* evaluation/__init__.py: ModelEvaluator.rolling_backtest                 *)
(***************************************************************************)
\* int(a / b) for b # 0: the quotient truncated towards zero
TruncDiv(a, b) ==
    IF (a >= 0) = (b > 0) THEN Abs(a) \div Abs(b) ELSE 0 - (Abs(a) \div Abs(b))

WindowStep(args) == TruncDiv(args.end_date - args.start_date, args.n_windows)

\* window i (counted from 0, as the loop counts)
TestStart(args, i) == args.start_date + i * WindowStep(args)

TrainStart(args, i) == TestStart(args, i) - 24 * args.train_days

TestEnd(args, i) == TestStart(args, i) + args.test_hours

\* the check that ends the loop
PastEndByMore(test_end, end_date) == test_end > end_date + 1

PastEnd(test_end, end_date) == test_end > end_date

RECURSIVE InOrder(_)
\* the rows of a DataFrame of get_bucket_counts, in the order of the select
InOrder(df) ==
    IF df = {} THEN <<>>
    ELSE LET first == CHOOSE r \in df : \A o \in df : r.timestamp <= o.timestamp
         IN <<first>> \o InOrder(df \ {first})

\* training rows up to and with the bucket at test_start
TrainRowsThroughTestStart(buckets, args, i) ==
    InOrder(GetBucketCounts(buckets, TrainStart(args, i), TestStart(args, i) + 1, "hourly"))

TrainRows(buckets, args, i) ==
    InOrder(GetBucketCounts(buckets, TrainStart(args, i), TestStart(args, i), "hourly"))

TestRows(buckets, args, i) ==
    InOrder(GetBucketCounts(buckets, TestStart(args, i), TestEnd(args, i), "hourly"))

\* df[column].values: the numpy array of a column
ColumnValues(rows) ==
    [kind |-> "datetime64",
     timestamps |-> [k \in 1..Len(rows) |-> rows[k].timestamp],
     counts |-> [k \in 1..Len(rows) |-> rows[k].count]]

\* train_df.empty or len(train_df) < 24
InsufficientTrainingOnlyEmpty(train_df) == Len(train_df) = 0

InsufficientTraining(train_df) == Len(train_df) = 0 \/ Len(train_df) < 24

\* a pass that logs an error of model.fit and goes on to predict with the instance as
\* the failed fit left it
BacktestWindowOnFitErrorLogged(model, train, test, args, i, libfit, libforecast) ==
    LET fitted == ModelFit(model, train, libfit)
        predicted == ModelPredict(fitted.state, test.kind, test.timestamps, libforecast)
        metrics == ComputeMetricsOn(test.counts, predicted.value[1].predictions,
                                    predicted.value[1].finite)
        pass(outcome, instance, calls, error, result) ==
            [outcome |-> outcome, model |-> instance, calls |-> calls, error |-> error,
             result |-> result]
    IN IF PastEnd(TestEnd(args, i), args.end_date)
       THEN pass("break", model, <<>>, NoError, None)
       ELSE IF InsufficientTraining(train.timestamps)
       THEN pass("skipped", model, <<>>, NoError, None)
       ELSE IF Len(test.timestamps) = 0
       THEN pass("skipped", model, <<>>, NoError, None)
       ELSE IF predicted.error # NoError
       THEN pass("caught", fitted.state, <<"fit", "predict">>, predicted.error, None)
       ELSE IF metrics.error # NoError
       THEN pass("caught", fitted.state, <<"fit", "predict", "compute_metrics">>,
                 metrics.error, None)
       ELSE pass("completed", fitted.state, <<"fit", "predict", "compute_metrics">>, NoError,
                 Some([window |-> i + 1,
                       train_start |-> TrainStart(args, i),
                       test_start |-> TestStart(args, i),
                       test_end |-> TestEnd(args, i),
                       rmse |-> metrics.value[1].rmse,
                       mae |-> metrics.value[1].mae,
                       mape |-> metrics.value[1].mape]))

\* one pass of the loop body for window i on the model instance, given the columns of
\* train_df and test_df: how the pass ends, the instance after it, the calls it made on
\* the instance and the result it appended
BacktestWindowOn(model, train, test, args, i, libfit, libforecast) ==
    LET fitted == ModelFit(model, train, libfit)
        predicted == ModelPredict(fitted.state, test.kind, test.timestamps, libforecast)
        metrics == ComputeMetricsOn(test.counts, predicted.value[1].predictions,
                                    predicted.value[1].finite)
        pass(outcome, instance, calls, error, result) ==
            [outcome |-> outcome, model |-> instance, calls |-> calls, error |-> error,
             result |-> result]
    IN IF PastEnd(TestEnd(args, i), args.end_date)
       THEN pass("break", model, <<>>, NoError, None)
       ELSE IF InsufficientTraining(train.timestamps)
       THEN pass("skipped", model, <<>>, NoError, None)
       ELSE IF Len(test.timestamps) = 0
       THEN pass("skipped", model, <<>>, NoError, None)
       ELSE IF fitted.error # NoError
       THEN pass("caught", fitted.state, <<"fit">>, fitted.error, None)
       ELSE IF predicted.error # NoError
       THEN pass("caught", fitted.state, <<"fit", "predict">>, predicted.error, None)
       ELSE IF metrics.error # NoError
       THEN pass("caught", fitted.state, <<"fit", "predict", "compute_metrics">>,
                 metrics.error, None)
       ELSE pass("completed", fitted.state, <<"fit", "predict", "compute_metrics">>, NoError,
                 Some([window |-> i + 1,
                       train_start |-> TrainStart(args, i),
                       test_start |-> TestStart(args, i),
                       test_end |-> TestEnd(args, i),
                       rmse |-> metrics.value[1].rmse,
                       mae |-> metrics.value[1].mae,
                       mape |-> metrics.value[1].mape]))

\* a number in tenths and in hundredths, rounded down
Tenths(p) == (10 * p[1]) \div p[2]

Hundredths(p) == (100 * p[1]) \div p[2]

\* pandas Series.mean: the mean of the values that are not NaN, NaN if there is none
SeriesMean(values) ==
    LET xs == SelectSeq(values, LAMBDA v : v # NaN)
    IN IF Len(xs) = 0 THEN NaN
       ELSE <<SumOver([k \in 1..Len(xs) |-> Hundredths(xs[k])], 1..Len(xs)), 100 * Len(xs)>>

\* pandas Series.std: the sample standard deviation of the values that are not NaN,
\* NaN if there are fewer than two; in tenths
SeriesStd(values) ==
    LET xs == SelectSeq(values, LAMBDA v : v # NaN)
        n == Len(xs)
        sum == SumOver([k \in 1..n |-> Tenths(xs[k])], 1..n)
        squares == SumOver([k \in 1..n |-> Tenths(xs[k]) * Tenths(xs[k])], 1..n)
    IN IF n < 2 THEN NaN
       ELSE <<ISqrt((n * squares - sum * sum) \div (n * (n - 1))), 10>>

\* the return of lines 126-134
EmptySummary(model) ==
    [model |-> model.name, n_windows_completed |-> 0,
     mean_rmse |-> NaN, mean_mae |-> NaN, mean_mape |-> NaN]

\* lines 136-149; a DataFrame of no rows has no column to read
Aggregate(model, results) ==
    LET column(name) == [k \in 1..Len(results) |-> results[k][name]]
    IN IF results = <<>> THEN [error |-> "KeyError", value |-> None]
       ELSE [error |-> NoError,
             value |-> Some([model |-> model.name,
                             n_windows_completed |-> Len(results),
                             mean_rmse |-> SeriesMean(column("rmse")),
                             std_rmse |-> SeriesStd(column("rmse")),
                             mean_mae |-> SeriesMean(column("mae")),
                             std_mae |-> SeriesStd(column("mae")),
                             mean_mape |-> SeriesMean(column("mape")),
                             std_mape |-> SeriesStd(column("mape")),
                             window_results |-> results])]

\* the aggregation without the check for no results
SummaryOfUnguarded(model, results) == Aggregate(model, results)

\* lines 126-149: what rolling_backtest returns for the results it has collected
SummaryOf(model, results) ==
    IF results = <<>> THEN [error |-> NoError, value |-> Some(EmptySummary(model))]
    ELSE Aggregate(model, results)

(***************************************************************************)
(* A run of rolling_backtest on the model instance, one pass of its loop   *)
(* at a time. bt is the call's frame: its arguments, the loop index i, the *)
(* results list, and a log of the passes: the windows that got past the    *)
(* end-of-period check (visited), those left by a `continue` before the    *)
(* try (skipped), those whose exception was caught (caught), the calls     *)
(* made on the instance (<<window, method>>), and what the call returned   *)
(* or raised.                                                              *)
(***************************************************************************)
MaxWindows == 3

BacktestTweets ==
    { [id |-> 1, created_at |-> 47], [id |-> 2, created_at |-> 48],
      [id |-> 3, created_at |-> 48], [id |-> 4, created_at |-> 50],
      [id |-> 5, created_at |-> 51], [id |-> 6, created_at |-> 52],
      [id |-> 7, created_at |-> 53], [id |-> 8, created_at |-> 53] }

\* what compute_time_buckets leaves in the table after each of these ranges is bucketed
BucketedRanges ==
    { <<>>, << <<0, 54>> >>, << <<0, 48>>, <<50, 54>> >>, << <<28, 54>> >> }

RECURSIVE BucketsAfter(_, _)
BucketsAfter(tweets, ranges) ==
    IF ranges = <<>> THEN {}
    ELSE ComputeTimeBucketsOn(tweets, BucketsAfter(tweets, Tail(ranges)),
                              Head(ranges)[1], Head(ranges)[2], "hourly").rows

BacktestArgs ==
    { [start_date |-> 48, end_date |-> e, n_windows |-> n, train_days |-> d, test_hours |-> h] :
        e \in {49, 54}, n \in 0..MaxWindows, d \in {1, 2}, h \in 1..3 }

\* the forecasts of n steps the library gives a backtest: the same value at every step
BacktestForecasts(n) ==
    { [raises |-> "yes", forecast |-> <<>>, spread |-> 0, finite |-> TRUE] }
      \cup { [raises |-> "no", forecast |-> [k \in 1..n |-> v], spread |-> 2, finite |-> TRUE] :
               v \in ForecastValues }
      \cup { [raises |-> "no", forecast |-> [k \in 1..n |-> 0], spread |-> 0, finite |-> FALSE] }

NoBacktest ==
    [pc |-> "idle", args |-> None, i |-> 0, results |-> <<>>,
     visited |-> <<>>, skipped |-> <<>>, caught |-> <<>>, calls |-> <<>>,
     fitted_on |-> <<>>, scored_on |-> <<>>,
     returned |-> None, raised |-> NoError]

InitBacktest == bt = NoBacktest

InitBacktestStore ==
    /\ rawTweets = {NewTweet(t) : t \in BacktestTweets}
    /\ \E ranges \in BucketedRanges : timeBuckets = BucketsAfter(rawTweets, ranges)
    /\ events \in InitialEventStores
    /\ features = {}
    /\ ret = NoCall

\* lines 47-58: the call, up to the loop; int(total_period / n_windows) divides by
\* n_windows
RollingBacktest(args) ==
    /\ bt.pc = "idle"
    /\ bt' = IF args.n_windows = 0
             THEN [bt EXCEPT !.pc = "done", !.args = Some(args), !.raised = "ZeroDivisionError"]
             ELSE [bt EXCEPT !.pc = "loop", !.args = Some(args)]
    /\ UNCHANGED models

\* the handler of lines 122-124, which lets the error go
CaughtReraised(b, window, error) ==
    [b EXCEPT !.pc = "done", !.raised = error, !.caught = Append(@, window)]

\* the handler of lines 122-124: log the error and continue with the next window
Caught(b, window, error) ==
    [b EXCEPT !.i = @ + 1, !.caught = Append(@, window)]

\* lines 60-124: one pass of the loop, or its end when range(n_windows) is used up
BacktestWindowWith(train, test, libfit, libforecast) ==
    LET args == bt.args[1]
        window == bt.i + 1
        r == BacktestWindowOn(models, train, test, args, bt.i, libfit, libforecast)
        \* the timestamps handed to model.fit, and those of the counts handed to
        \* model.compute_metrics as y_true
        called == [bt EXCEPT !.visited = Append(@, window),
                             !.calls = @ \o [k \in 1..Len(r.calls) |-> <<window, r.calls[k]>>],
                             !.fitted_on = IF Len(r.calls) >= 1
                                           THEN Append(@, <<window, train.timestamps>>) ELSE @,
                             !.scored_on = IF Len(r.calls) >= 3
                                           THEN Append(@, <<window, test.timestamps>>) ELSE @]
    IN /\ bt.pc = "loop"
       /\ IF bt.i >= args.n_windows \/ r.outcome = "break"
          THEN bt' = [bt EXCEPT !.pc = "aggregate"] /\ UNCHANGED models
          ELSE /\ models' = r.model
               /\ bt' = IF r.outcome = "skipped"
                        THEN [called EXCEPT !.i = @ + 1, !.skipped = Append(@, window)]
                        ELSE IF r.outcome = "caught"
                        THEN Caught(called, window, r.error)
                        ELSE [called EXCEPT !.i = @ + 1, !.results = Append(@, r.result[1])]

\* lines 126-159: the summary of the results collected
BacktestReturn ==
    LET r == SummaryOf(models, bt.results)
    IN /\ bt.pc = "aggregate"
       /\ bt' = [bt EXCEPT !.pc = "done", !.returned = r.value, !.raised = r.error]
       /\ UNCHANGED models

\* a pass on what get_bucket_counts reads from the store, whatever the library then does
BacktestWindow ==
    /\ bt.pc = "loop"
    /\ LET train == ColumnValues(TrainRows(timeBuckets, bt.args[1], bt.i))
           test == ColumnValues(TestRows(timeBuckets, bt.args[1], bt.i))
       IN \E libfit \in LibraryFits, libforecast \in BacktestForecasts(Len(test.timestamps)) :
            BacktestWindowWith(train, test, libfit, libforecast)

NextBacktest ==
    \/ \E args \in BacktestArgs : RollingBacktest(args)
    \/ BacktestWindow
    \/ BacktestReturn

(***************************************************************************)
(* evaluation/__init__.py: ModelEvaluator.detect_regime_shift              *)
(***************************************************************************)
MinPeriods == 24

\* the rows lo..hi of a column, summed, and their squares summed
ColumnSum(column, lo, hi) == SumOver(column, lo..hi)

ColumnSumSq(column, lo, hi) == SumOver([k \in lo..hi |-> column[k] * column[k]], lo..hi)

\* rolling(window=window_hours, ...): an integer window is a number of rows, so the
\* window of row j begins window - 1 rows before it
RollingFirstRow(timestamps, j, window) == Max(1, j - window + 1)

\* a rolling standard deviation given from 2 rows on
RollingStdAtFromTwo(timestamps, counts, j, window) ==
    LET lo == RollingFirstRow(timestamps, j, window)
        n == j - lo + 1
        sum == ColumnSum(counts, lo, j)
    IN IF n < 2 THEN NaN
       ELSE <<n * ColumnSumSq(counts, lo, j) - sum * sum, n * (n - 1)>>

\* df["count"].rolling(window=window_hours, min_periods=24).std() at row j: NaN below
\* min_periods rows, else the sample variance <<n * sum(x^2) - sum(x)^2, n * (n - 1)>>
\* under its square root
RollingStdAt(timestamps, counts, j, window) ==
    LET lo == RollingFirstRow(timestamps, j, window)
        n == j - lo + 1
        sum == ColumnSum(counts, lo, j)
    IN IF n < MinPeriods THEN NaN
       ELSE <<n * ColumnSumSq(counts, lo, j) - sum * sum, n * (n - 1)>>

\* df["rolling_std"].shift(window_hours): the value `window` rows before row j (row 0
\* stands for none)
ShiftedRow(timestamps, j, window) == IF j - window >= 1 THEN j - window ELSE 0

\* row["variance_ratio"] is a number (0 / 0 is NaN, x / 0 is inf) and is above
\* 1 + threshold_std or below 1 / (1 + threshold_std); threshold_std is <<p, q>> for p / q,
\* and the standard deviations are compared by their squares
IsShift(current, earlier, threshold_std) ==
    LET p == threshold_std[1]
        q == threshold_std[2]
    IN /\ current # NaN
       /\ earlier # NaN
       /\ ~(current[1] = 0 /\ earlier[1] = 0)
       /\ \/ current[1] * earlier[2] * q * q > (p + q) * (p + q) * earlier[1] * current[2]
          \/ current[1] * earlier[2] * (p + q) * (p + q) < q * q * earlier[1] * current[2]

\* the whole call on the time_buckets table: the timestamps of the shifts appended, in
\* the order of the rows
DetectRegimeShiftOn(buckets, start_date, end_date, window_hours, threshold_std) ==
    LET rows == InOrder(GetBucketCounts(buckets, start_date, end_date, "hourly"))
        n == Len(rows)
        timestamps == [k \in 1..n |-> rows[k].timestamp]
        counts == [k \in 1..n |-> rows[k].count]
        flagged(j) ==
            LET s == ShiftedRow(timestamps, j, window_hours)
            IN /\ s >= 1
               /\ IsShift(RollingStdAt(timestamps, counts, j, window_hours),
                          RollingStdAt(timestamps, counts, s, window_hours), threshold_std)
    IN IF n = 0 \/ n < window_hours
       THEN [error |-> NoError, value |-> Some(<<>>)]
       ELSE IF window_hours < MinPeriods
       THEN [error |-> "ValueError", value |-> None]
       ELSE [error |-> NoError,
             value |-> Some(SelectSeq(timestamps,
                                      LAMBDA t : \E j \in 1..n : timestamps[j] = t /\ flagged(j)))]

(***************************************************************************)
(* The store under detect_regime_shift.                                    *)
(***************************************************************************)
SeriesHours == 0..99

\* the tweets of an hour: quiet hours (0 or 1 tweet), bursts (0, 2 or 4), silence
SeriesCounts ==
    { [h \in SeriesHours |-> IF h < 24 THEN h % 2 ELSE 2 * (h % 3)],
      [h \in SeriesHours |-> 1],
      [h \in SeriesHours |-> IF h < 30 THEN 0 ELSE h % 2],
      [h \in SeriesHours |-> IF h < 40 THEN 2 * (h % 3) ELSE h % 2] }

\* the hours compute_time_buckets was run for
SeriesHeld ==
    { 0..59, (0..59) \ (30..35), {h \in SeriesHours : h % 2 = 0} }

\* the detect_regime_shift calls made: <<start_date, end_date, window_hours, threshold_std>>
ShiftCalls ==
    { <<0, e, w, t>> : e \in {60, 100}, w \in {24, 30}, t \in {<<2, 1>>, <<1, 2>>, <<0, 1>>} }
      \cup { <<0, 20, 24, <<2, 1>>>>, <<0, 60, 12, <<2, 1>>>>, <<10, 60, 24, <<2, 1>>>> }

InitShiftStore ==
    /\ \E count \in SeriesCounts, held \in SeriesHeld :
         /\ rawTweets = UNION { {NewTweet([id |-> 10 * h + k, created_at |-> h]) :
                                    k \in 1..count[h]} : h \in SeriesHours }
         /\ timeBuckets = {NewBucket(h, h + 1, "hourly", count[h]) : h \in held}
    /\ events \in InitialEventStores
    /\ features = {}
    /\ ret = NoCall

DetectRegimeShift(start_date, end_date, window_hours, threshold_std) ==
    LET r == DetectRegimeShiftOn(timeBuckets, start_date, end_date, window_hours, threshold_std)
    IN /\ ret' = [op |-> "detect_regime_shift",
                  args |-> <<start_date, end_date, window_hours, threshold_std>>,
                  value |-> r.value, error |-> r.error, values |-> None]
       /\ UNCHANGED <<rawTweets, timeBuckets, events, features>>

NextShifts == \E c \in ShiftCalls : DetectRegimeShift(c[1], c[2], c[3], c[4])

Init == InitStore /\ NoModel /\ InitBacktest /\ NoInstances /\ NoRuns

\* the store under ingestion and bucket computation
Spec == Init /\ [][NextBuckets /\ UNCHANGED <<models, mret, bt, instanceVars, runs>>]_vars

\* the store under ingestion and feature computation
SpecFeatures == Init /\ [][NextFeatures /\ UNCHANGED <<models, mret, bt, instanceVars, runs>>]_vars

InitModel == InitStore /\ InitModels /\ InitBacktest /\ NoInstances /\ NoRuns

InitBacktestRun == InitBacktestStore /\ InitModels /\ InitBacktest /\ NoInstances /\ NoRuns

SpecBacktest ==
    InitBacktestRun /\ [][NextBacktest /\ UNCHANGED <<storeVars, mret, instanceVars, runs>>]_vars

SpecModel ==
    InitModel /\ [][NextModel /\ UNCHANGED <<storeVars, bt, instanceVars, runs>>]_vars

InitInstance == InitStore /\ NoModel /\ InitBacktest /\ InitInstances /\ NoRuns

\* two model instances of one process, called in any order
SpecInstances ==
    InitInstance /\ [][NextInstances /\ UNCHANGED <<storeVars, models, mret, bt, runs>>]_vars

InitEvent == InitEventStore /\ NoModel /\ InitBacktest /\ NoInstances /\ NoRuns

\* the event store under add_event and compute_window_intensity
SpecEvents ==
    InitEvent /\ [][NextEvents /\ UNCHANGED <<models, mret, bt, instanceVars, runs>>]_vars

InitShift == InitShiftStore /\ NoModel /\ InitBacktest /\ NoInstances /\ NoRuns

\* a bucketed store under detect_regime_shift
SpecShifts ==
    InitShift /\ [][NextShifts /\ UNCHANGED <<models, mret, bt, instanceVars, runs>>]_vars

SpecBulk == Init /\ [][NextBulk /\ UNCHANGED <<models, mret, bt, instanceVars, runs>>]_vars

InitRun == InitRunsStore /\ NoModel /\ InitBacktest /\ NoInstances /\ NoRuns

\* compute_time_buckets calls of two processes on one database, their statements
\* interleaved in any order
SpecRuns ==
    InitRun /\ [][NextRuns /\ UNCHANGED <<rawTweets, events, features, ret, models, mret, bt,
                                          instanceVars>>]_vars

SpecSessions == InitRun /\ [][NextSessions /\ UNCHANGED <<models, mret, bt, instanceVars>>]_vars

(***************************************************************************)
(* C1: no look-ahead. For every reference time and lookback, the lags and  *)
(* the rolling means and deviations that compute_features computes on the  *)
(* store are those it computes on the store cut down to the tweets and     *)
(* buckets timestamped before the reference time (so two stores that agree *)
(* before the reference time give the same values); and once a call has    *)
(* computed the values, ingesting tweets created at or after the reference *)
(* time, or bucketing hours at or after it, and computing again gives the  *)
(* same values.                                                            *)
(***************************************************************************)
LagsAndRollings(v) ==
    IF v = None THEN None
    ELSE <<v[1].lag_1h, v[1].lag_6h, v[1].lag_12h, v[1].lag_24h, v[1].lag_7d,
           v[1].rolling_mean_24h, v[1].rolling_std_24h,
           v[1].rolling_mean_7d, v[1].rolling_std_7d>>

TweetsBefore(tweets, t) == {x \in tweets : x.created_at < t}

BucketsBefore(buckets, t) == {b \in buckets : b.bucket_start < t}

ComputedOn(tweets, buckets, reference_time, lookback_days) ==
    LagsAndRollings(ComputeFeaturesOn(tweets, buckets, events, features,
                                      reference_time, lookback_days).values)

C1_NoLookAhead ==
    /\ \A c \in FeatureCalls :
          ComputedOn(rawTweets, timeBuckets, c[1], c[2])
            = ComputedOn(TweetsBefore(rawTweets, c[1]), BucketsBefore(timeBuckets, c[1]),
                         c[1], c[2])
    /\ (ret.op = "compute_features" /\ ret.values # None) =>
          /\ \A fetched \in SeqsUpTo({t \in ApiTweets : t.created_at >= ret.args[1]}, MaxBatch) :
                ComputedOn(IngestTweetsOn(rawTweets, fetched).rows, timeBuckets,
                           ret.args[1], ret.args[2]) = LagsAndRollings(ret.values)
          /\ \A c \in FutureBucketCalls :
                ComputedOn(rawTweets,
                           ComputeTimeBucketsOn(rawTweets, timeBuckets, Max(c[1], ret.args[1]), c[2], c[3]).rows,
                           ret.args[1], ret.args[2]) = LagsAndRollings(ret.values)

\* a feature computation over a week of history has found its lags while the store
\* holds a tweet and a counted bucket at the reference time
C1_Witness ==
    /\ ret.op = "compute_features"
    /\ ret.values # None
    /\ ret.values[1].lag_1h = Some(1)
    /\ ret.values[1].lag_7d = Some(1)
    /\ ret.values[1].rolling_std_7d # None
    /\ \E t \in rawTweets : t.created_at >= ret.args[1]
    /\ \E b \in timeBuckets : b.bucket_start >= ret.args[1] /\ b.tweet_count > 0

(***************************************************************************)
(* C2: after any sequence of compute_time_buckets calls the table holds at *)
(* most one bucket per (bucket_start, granularity), no call fails on the   *)
(* store, and running a call a second time on unchanged tweets leaves the  *)
(* buckets and their counts as the first run left them.                    *)
(***************************************************************************)
C2_BucketsIdempotent ==
    /\ UniqueBuckets(timeBuckets)
    /\ ret.op = "compute_time_buckets" =>
          /\ ret.error = (IF ret.args[3] \in {"hourly", "daily"} THEN NoError ELSE "ValueError")
          /\ ComputeTimeBucketsOn(rawTweets, timeBuckets, ret.args[1], ret.args[2], ret.args[3]).rows
               = timeBuckets
    /\ \A c \in BucketCalls :
          LET once == ComputeTimeBucketsOn(rawTweets, timeBuckets, c[1], c[2], c[3])
              twice == ComputeTimeBucketsOn(rawTweets, once.rows, c[1], c[2], c[3])
          IN /\ twice.rows = once.rows
             /\ twice.error = once.error
             /\ twice.value = once.value
             /\ UniqueBuckets(once.rows)

\* a call has recounted buckets that were there: hourly and daily buckets hold counts
C2_Witness ==
    /\ ret.op = "compute_time_buckets"
    /\ ret.error = NoError
    /\ ret.value = Some(3)
    /\ \E b \in timeBuckets : b.granularity = "hourly" /\ b.tweet_count > 0
    /\ \E b \in timeBuckets : b.granularity = "daily" /\ b.tweet_count > 0

(***************************************************************************)
(* C3: predict on an instance on which no fit has returned raises the      *)
(* not-fitted error (RuntimeError) and returns no forecast, for each of    *)
(* the three variants, whatever timestamps it is given and whatever the    *)
(* library would have forecast; a fit that raised on the instance before   *)
(* does not change that.                                                   *)
(***************************************************************************)
C3_PredictNeedsFit ==
    /\ ~mret.succeeded =>
         \A input \in PredictInputs :
           \A lib \in LibraryForecasts(models.name, Len(input.timestamps)) :
             ModelPredict(models, input.kind, input.timestamps, lib)
               = [error |-> "RuntimeError", value |-> None]
    /\ (mret.op = "predict" /\ ~mret.succeeded)
         => (mret.error = "RuntimeError" /\ mret.value = None)

\* predict has just raised on a count model whose only fit so far failed inside the
\* library after the model object was built
C3_Witness ==
    /\ mret.op = "predict"
    /\ models.name = "negative_binomial"
    /\ mret.failed /\ ~mret.succeeded
    /\ models.model # None
    /\ mret.error = "RuntimeError"

\* predict has raised on the self-exciting model after a fit that failed
C3_WitnessHawkes ==
    /\ mret.op = "predict"
    /\ models.name = "hawkes"
    /\ mret.failed /\ ~mret.succeeded
    /\ mret.error = "RuntimeError"

(***************************************************************************)
(* What the claims about rolling_backtest speak of, read off the frame.    *)
(***************************************************************************)
ToSet(seq) == {seq[k] : k \in 1..Len(seq)}

\* a call with n_windows >= 1 is under way or over
Started == bt.pc # "idle" /\ bt.args[1].n_windows >= 1

Returned == bt.pc = "done" /\ bt.returned # None

ResultWindows == {bt.results[k].window : k \in 1..Len(bt.results)}

CallWindows == {bt.calls[k][1] : k \in 1..Len(bt.calls)}

\* the hourly observations the store holds in [from, to)
Observations24(from, to) ==
    Cardinality({b \in timeBuckets : /\ b.granularity = "hourly"
                                     /\ b.bucket_start >= from /\ b.bucket_start < to})

TrainObservations(w) ==
    Observations24(TrainStart(bt.args[1], w - 1), TestStart(bt.args[1], w - 1))

TestObservations(w) ==
    Observations24(TestStart(bt.args[1], w - 1), TestEnd(bt.args[1], w - 1))

\* the windows (counted from 1) that come before the first one whose test_end is after
\* end_date
WindowsInPeriod ==
    {w \in 1..bt.args[1].n_windows :
       \A k \in 1..w : TestEnd(bt.args[1], k - 1) <= bt.args[1].end_date}

(***************************************************************************)
(* C4: rolling_backtest with n_windows >= 1 never raises, whatever the     *)
(* store holds (nothing at all included): no pass of its loop and no       *)
(* aggregation raises, it returns a summary, and when no window has        *)
(* completed the summary has n_windows_completed = 0 and NaN for           *)
(* mean_rmse, mean_mae and mean_mape.                                      *)
(***************************************************************************)
C4_NeverRaisesOnSparseData ==
    Started =>
      /\ bt.raised = NoError
      /\ bt.i <= bt.args[1].n_windows
      /\ bt.pc = "aggregate" => SummaryOf(models, bt.results).error = NoError
      /\ bt.pc = "done" => bt.returned # None
      /\ (Returned /\ bt.results = <<>>) =>
           /\ bt.returned[1].n_windows_completed = 0
           /\ bt.returned[1].mean_rmse = NaN
           /\ bt.returned[1].mean_mae = NaN
           /\ bt.returned[1].mean_mape = NaN

\* the call has returned on the empty store after skipping all three windows
C4_Witness ==
    /\ Returned
    /\ timeBuckets = {}
    /\ bt.args[1].n_windows = 3
    /\ bt.skipped = <<1, 2, 3>>
    /\ bt.returned[1].n_windows_completed = 0
    /\ bt.returned[1].mean_rmse = NaN

(***************************************************************************)
(* C5: when fit, predict or compute_metrics raises in a window, the error  *)
(* is caught: it does not leave rolling_backtest, the window gets no       *)
(* result, every later window of the period is still gone through, and the *)
(* call returns a summary.                                                 *)
(***************************************************************************)
C5_WindowErrorIsCaught ==
    Started =>
      /\ \A w \in ToSet(bt.caught) :
           /\ w \notin ResultWindows
           /\ <<w, "fit">> \in ToSet(bt.calls)
           /\ w \in ToSet(bt.visited)
      /\ bt.caught # <<>> => bt.raised = NoError
      /\ (bt.caught # <<>> /\ bt.pc \in {"aggregate", "done"}) =>
           ToSet(bt.visited) = WindowsInPeriod
      /\ (bt.caught # <<>> /\ bt.pc = "done") => bt.returned # None

\* fit raised in window 1, compute_metrics raised in window 2 (on a NaN forecast),
\* window 3 completed, and the call returned
C5_Witness ==
    /\ Returned
    /\ bt.caught = <<1, 2>>
    /\ <<1, "predict">> \notin ToSet(bt.calls)
    /\ <<2, "compute_metrics">> \in ToSet(bt.calls)
    /\ ResultWindows = {3}
    /\ bt.returned[1].n_windows_completed = 1

\* predict raised in window 1 and window 2 completed
C5_WitnessPredict ==
    /\ Returned
    /\ bt.caught = <<1>>
    /\ <<1, "predict">> \in ToSet(bt.calls)
    /\ <<1, "compute_metrics">> \notin ToSet(bt.calls)
    /\ 2 \in ResultWindows

(***************************************************************************)
(* C6: a window whose training range holds fewer than 24 hourly            *)
(* observations, or whose test range holds none, is skipped: no method of  *)
(* the model is called for it, it gets no result and does not count in the *)
(* summary, and the later windows of the period are still gone through.    *)
(***************************************************************************)
C6_SparseWindowIsSkipped ==
    Started =>
      /\ \A w \in ToSet(bt.visited) :
           (TrainObservations(w) < 24 \/ TestObservations(w) = 0)
             <=> w \in ToSet(bt.skipped)
      /\ \A w \in ToSet(bt.skipped) :
           /\ w \notin CallWindows
           /\ w \notin ResultWindows
           /\ w \notin ToSet(bt.caught)
      /\ (bt.skipped # <<>> /\ bt.pc \in {"aggregate", "done"}) =>
           Len(bt.visited) = Cardinality(WindowsInPeriod)
      /\ (Returned /\ bt.skipped # <<>>) =>
           /\ bt.returned[1].n_windows_completed
                = Cardinality(ToSet(bt.visited) \ (ToSet(bt.skipped) \cup ToSet(bt.caught)))
           /\ bt.results # <<>> =>
                \A k \in 1..Len(bt.returned[1].window_results) :
                  bt.returned[1].window_results[k].window \notin ToSet(bt.skipped)

\* windows 1 and 2 had 20 and 22 training observations and were skipped, window 3 had
\* 24 and completed
C6_Witness ==
    /\ Returned
    /\ bt.skipped = <<1, 2>>
    /\ TrainObservations(1) = 20 /\ TrainObservations(2) = 22 /\ TrainObservations(3) = 24
    /\ ResultWindows = {3}

\* window 1 had its training data and no test data and was skipped, window 2 completed
C6_WitnessNoTestData ==
    /\ Returned
    /\ 1 \in ToSet(bt.skipped)
    /\ TrainObservations(1) >= 24 /\ TestObservations(1) = 0
    /\ 2 \in ResultWindows

(***************************************************************************)
(* C7: the windows are gone through in increasing order, one by one from   *)
(* the first; the loop ends at the first window whose test_end is after    *)
(* end_date, so that no window from that one on is fitted or scored; and   *)
(* every recorded result has test_end <= end_date.                         *)
(***************************************************************************)
C7_WindowsInOrderUntilEnd ==
    Started =>
      /\ bt.visited = [k \in 1..Len(bt.visited) |-> k]
      /\ \A k, l \in 1..Len(bt.calls) : k < l => bt.calls[k][1] <= bt.calls[l][1]
      /\ \A w \in ToSet(bt.visited) \cup CallWindows \cup ResultWindows :
           w \in WindowsInPeriod
      /\ \A k \in 1..Len(bt.results) :
           /\ bt.results[k].test_end <= bt.args[1].end_date
           /\ bt.results[k].test_end = TestEnd(bt.args[1], bt.results[k].window - 1)
      /\ bt.pc = "loop" => Len(bt.visited) = bt.i
      /\ bt.pc \in {"aggregate", "done"} =>
           \/ Len(bt.visited) = bt.args[1].n_windows
           \/ PastEnd(TestEnd(bt.args[1], Len(bt.visited)), bt.args[1].end_date)

\* the loop ended at window 3 of 3, whose test_end is after end_date, after window 2
\* had completed
C7_Witness ==
    /\ Returned
    /\ bt.args[1].n_windows = 3
    /\ bt.visited = <<1, 2>>
    /\ TestEnd(bt.args[1], 2) > bt.args[1].end_date
    /\ TestObservations(3) > 0 /\ TrainObservations(3) >= 24
    /\ 2 \in ResultWindows

(***************************************************************************)
(* C8: the summary rolling_backtest returns holds the mean and the std of  *)
(* rmse, mae and mape and the per-window results, in every outcome.        *)
(***************************************************************************)
C8_SummaryHasAggregateKeys ==
    Returned =>
      {"mean_rmse", "std_rmse", "mean_mae", "std_mae", "mean_mape", "std_mape",
       "window_results"} \subseteq DOMAIN bt.returned[1]

(***************************************************************************)
(* C9: rolling_backtest with n_windows >= 1 collects at most n_windows     *)
(* results, their window indices are strictly increasing (so none comes    *)
(* twice), every rmse and mae is a number >= 0, and the summary's          *)
(* n_windows_completed is the number of results.                           *)
(***************************************************************************)
C9_ResultsWellFormed ==
    Started =>
      /\ Len(bt.results) <= bt.args[1].n_windows
      /\ \A k \in 1..Len(bt.results) :
           /\ bt.results[k].window \in 1..bt.args[1].n_windows
           /\ k > 1 => bt.results[k - 1].window < bt.results[k].window
           /\ bt.results[k].rmse[2] > 0 /\ bt.results[k].rmse[1] >= 0
           /\ bt.results[k].mae[2] > 0 /\ bt.results[k].mae[1] >= 0
      /\ Returned =>
           /\ bt.returned[1].n_windows_completed = Len(bt.results)
           /\ bt.results # <<>> => bt.returned[1].window_results = bt.results

\* all three windows completed, one of them with a forecast above the true counts
C9_Witness ==
    /\ Returned
    /\ bt.args[1].n_windows = 3
    /\ Len(bt.results) = 3
    /\ bt.returned[1].n_windows_completed = 3
    /\ \E k \in 1..3 : bt.results[k].mae[1] > 0 /\ bt.results[k].rmse[1] > 0
    /\ bt.returned[1].std_rmse # NaN

(***************************************************************************)
(* C10: HawkesModel.fit on data that gives fewer than 10 synthetic events  *)
(* raises; the other two variants have no minimum of their own and fail    *)
(* exactly when the library call raises; and in every variant a fit that   *)
(* raises leaves is_fitted, the fitted result and parameters and the       *)
(* hyperparameters as they were before the call.                           *)
(***************************************************************************)
SyntheticEvents(data) == SumSeq(data.counts)

Observations(variant, data) ==
    IF variant = "hawkes" THEN SyntheticEvents(data) ELSE Len(data.counts)

FittedState(self) ==
    IF self.name = "hawkes"
    THEN <<self.is_fitted, self.hyperparameters, self.baseline, self.alpha, self.decay>>
    ELSE IF self.name = "negative_binomial"
    THEN <<self.is_fitted, self.hyperparameters, self.result, self.alpha>>
    ELSE <<self.is_fitted, self.hyperparameters, self.result>>

ObservationsHeld(reference_time, lookback_days) ==
    GetBucketCounts(timeBuckets, reference_time - 24 * lookback_days, reference_time, "hourly")

C11_NoneOrFeature ==
    \A c \in FeatureCalls :
      LET r == ComputeFeaturesOn(rawTweets, timeBuckets, events, features, c[1], c[2])
      IN /\ ObservationsHeld(c[1], c[2]) = {} =>
              (r.error = NoError /\ r.value = None /\ r.features = features)
         /\ ObservationsHeld(c[1], c[2]) # {} =>
              (r.error = NoError /\ r.value # None)

(***************************************************************************)
(* C12: in every feature vector compute_features computes, among the       *)
(* hourly observations of the lookback range                               *)
(* [reference_time - lookback_days, reference_time) that the call read: a  *)
(* lag field is null exactly when none is timestamped at reference_time    *)
(* minus the lag, a rolling mean is null exactly when none lies in its     *)
(* window, and a rolling standard deviation is null exactly when fewer     *)
(* than 2 lie in its window. The same holds of the vector computed from    *)
(* any shorter tail of the range.                                          *)
(***************************************************************************)
LagFields == {<<"lag_1h", 1>>, <<"lag_6h", 6>>, <<"lag_12h", 12>>, <<"lag_24h", 24>>,
              <<"lag_7d", 168>>}

RollingFields == {<<"rolling_mean_24h", "rolling_std_24h", 24>>,
                  <<"rolling_mean_7d", "rolling_std_7d", 168>>}

\* the hours of the hourly buckets the store holds in [from, to)
HoursHeld(from, to) ==
    {b.bucket_start : b \in {x \in timeBuckets : /\ x.granularity = "hourly"
                                                  /\ x.bucket_start >= from
                                                  /\ x.bucket_start < to}}

\* v is null exactly where the observations at the hours `held` give it no history
NullWithoutHistory(v, held, reference_time) ==
    /\ \A f \in LagFields : (v[f[1]] = None) <=> (reference_time - f[2] \notin held)
    /\ \A f \in RollingFields :
         LET inWindow == {t \in held : t >= reference_time - f[3] /\ t < reference_time}
         IN /\ (v[f[1]] = None) <=> (inWindow = {})
            /\ (v[f[2]] = None) <=> (Cardinality(inWindow) < 2)

TailHours == {0, 1, 2, 7, 24}

C12_NullExactlyWithoutHistory ==
    /\ (ret.op = "compute_features" /\ ret.values # None) =>
         NullWithoutHistory(ret.values[1],
                            HoursHeld(ret.args[1] - 24 * ret.args[2], ret.args[1]),
                            ret.args[1])
    /\ \A c \in FeatureCalls, k \in TailHours :
         NullWithoutHistory(
           FeatureValues(GetBucketCounts(timeBuckets, c[1] - k, c[1], "hourly"), events, c[1]),
           HoursHeld(c[1] - k, c[1]), c[1])

\* a vector computed over one day of lookback: its 7-day lag is null though the store
\* holds the observation of 7 days before, its other lags and its rolling values are not
C12_Witness ==
    /\ ret.op = "compute_features"
    /\ ret.values # None
    /\ ret.args[2] = 1
    /\ ret.values[1].lag_7d = None
    /\ ret.values[1].lag_24h # None
    /\ ret.values[1].rolling_std_24h # None
    /\ ret.args[1] - 168 \in HoursHeld(0, ret.args[1])

\* C12 as stated, of the observations of the store: a lag is null exactly when the store
\* holds no observation at reference_time minus the lag
C12_NullExactlyWithoutStoredObservation ==
    (ret.op = "compute_features" /\ ret.values # None) =>
      \A f \in LagFields :
        (ret.values[1][f[1]] = None) <=> (ret.args[1] - f[2] \notin HoursHeld(0, ret.args[1]))

(***************************************************************************)
(* C13: on a model instance only fit changes the fitted state. A call of   *)
(* predict, get_hyperparameters or compute_metrics leaves is_fitted, the   *)
(* fitted parameters and the hyperparameter mapping of every instance as   *)
(* they were, and a call of fit leaves those of every other instance as    *)
(* they were.                                                              *)
(***************************************************************************)
C13_OnlyFitChangesOwnState ==
    [][\A j \in InstanceIds :
         (iret'.op # "fit" \/ j # iret'.instance) =>
           StateOf(instances', dicts', j) = StateOf(instances, dicts, j)]_vars

\* a fit that fitted one instance while another instance of the same variant was
\* fitted already, with other hyperparameters
C13_Witness ==
    /\ iret.op = "fit"
    /\ iret.error = NoError
    /\ instances[iret.instance].is_fitted
    /\ \E j \in InstanceIds \ {iret.instance} :
         /\ instances[j].name = instances[iret.instance].name
         /\ instances[j].is_fitted
         /\ dicts[instances[j].hyperparameters] # dicts[instances[iret.instance].hyperparameters]

(***************************************************************************)
(* C14: compute_metrics on a non-empty y_true and a y_pred of the same     *)
(* length that holds only numbers does not raise; its mape is NaN when     *)
(* every true value is 0, and otherwise it is a finite number, the mean of *)
(* 100 * |y_true - y_pred| / y_true over exactly the entries with          *)
(* y_true > 0.                                                             *)
(***************************************************************************)
MetricsCall == mret.op = "compute_metrics"

WellFormedArrays(args) == Len(args[1]) > 0 /\ Len(args[1]) = Len(args[2]) /\ args[3]

Positive(y_true) == {i \in 1..Len(y_true) : y_true[i] > 0}

\* m, a fraction <<numerator, denominator>>, is the mean over the entries idx of
\* 100 * |y_true - y_pred| / y_true: the deviations from it sum to 0
IsMeanPercentageOver(m, y_true, y_pred, idx) ==
    LET all == ProdOver(y_true, idx) IN
    /\ m[2] > 0
    /\ SumOver([i \in idx |-> 100 * Abs(y_true[i] - y_pred[i]) * m[2] * (all \div y_true[i])
                                - m[1] * all], idx) = 0

C14_MapeMasksZeroTruth ==
    (MetricsCall /\ WellFormedArrays(mret.args)) =>
      /\ mret.error = NoError
      /\ mret.value # None
      /\ Positive(mret.args[1]) = {} => mret.value[1].mape = NaN
      /\ Positive(mret.args[1]) # {} =>
           /\ mret.value[1].mape # NaN
           /\ IsMeanPercentageOver(mret.value[1].mape, mret.args[1], mret.args[2],
                                   Positive(mret.args[1]))

\* two true values, both 0, against a prediction that is not 0: mape is NaN
C14_Witness ==
    /\ MetricsCall
    /\ mret.args = <<<<0, 0>>, <<1, 0>>, TRUE>>
    /\ mret.error = NoError
    /\ mret.value[1].mape = NaN

\* one true value of three is 0: mape is the mean of 100 and 25 percent
C14_WitnessMasked ==
    /\ MetricsCall
    /\ mret.args = <<<<0, 3, 4>>, <<5, 0, 5>>, TRUE>>
    /\ mret.error = NoError
    /\ mret.value[1].mape # NaN
    /\ 2 * mret.value[1].mape[1] = 125 * mret.value[1].mape[2]

\* C14 as stated, of every call: no raise and mape = NaN whenever every true value is 0
C14_NaNWheneverAllZero ==
    (MetricsCall /\ Positive(mret.args[1]) = {}) =>
      /\ mret.error = NoError
      /\ mret.value # None
      /\ mret.value[1].mape = NaN

(***************************************************************************)
(* C15: compute_metrics(y, y) returns rmse = 0, mae = 0 and mape = 0 for   *)
(* every non-empty y whose entries are all greater than 0, whatever the    *)
(* variant of the instance it is called on.                                *)
(***************************************************************************)
C15_MetricsOfItselfAreZero ==
    (/\ MetricsCall
     /\ mret.args[1] = mret.args[2]
     /\ mret.args[3]
     /\ Len(mret.args[1]) > 0
     /\ Positive(mret.args[1]) = 1..Len(mret.args[1])) =>
      /\ mret.error = NoError
      /\ mret.value # None
      /\ mret.value[1].rmse[1] = 0 /\ mret.value[1].rmse[2] > 0
      /\ mret.value[1].mae[1] = 0 /\ mret.value[1].mae[2] > 0
      /\ mret.value[1].mape # NaN
      /\ mret.value[1].mape[1] = 0 /\ mret.value[1].mape[2] > 0

\* the call on y = (2, 4) against itself
C15_Witness ==
    /\ MetricsCall
    /\ mret.args = <<<<2, 4>>, <<2, 4>>, TRUE>>
    /\ mret.error = NoError
    /\ mret.value[1].mae[1] = 0

(***************************************************************************)
(* C16: two compute_time_buckets runs over overlapping ranges whose steps  *)
(* interleave are safe: every run that has ended ended without error, and  *)
(* the store holds one bucket per (bucket_start, granularity) key, each    *)
(* with the count of the tweets of its interval.                           *)
(***************************************************************************)
C16_InterleavedRunsAreSafe ==
    /\ \A r \in RunIds : runs[r].pc = "done" => runs[r].error = NoError
    /\ UniqueBuckets(timeBuckets)
    /\ \A b \in timeBuckets : b.tweet_count = CountTweets(rawTweets, b.bucket_start, b.bucket_end)

\* what does hold of interleaved runs: the unique constraint keeps one bucket per key
\* with the count of its interval, at the price of the run that commits second failing
C16_OneBucketPerKey ==
    /\ UniqueBuckets(timeBuckets)
    /\ \A b \in timeBuckets : b.tweet_count = CountTweets(rawTweets, b.bucket_start, b.bucket_end)
    /\ \A r \in RunIds : runs[r].error \in {NoError, "IntegrityError"}

\* a run that ended in IntegrityError while the other run ended without error
C16_LostRun ==
    \E r \in RunIds, o \in RunIds :
      /\ runs[r].pc = "done" /\ runs[r].error = "IntegrityError"
      /\ runs[o].pc = "done" /\ runs[o].error = NoError /\ runs[o].value # None

(***************************************************************************)
(* C17: add_event with intensity outside [0, 1] or with                    *)
(* event_start >= event_end raises ValueError and leaves the event store   *)
(* as it was; so every stored event has intensity in [0, 1] and            *)
(* event_start < event_end. (Intensity in tenths.)                         *)
(***************************************************************************)
C17_InvalidEventIsRefused ==
    /\ \A e \in events : 0 <= e.intensity /\ e.intensity <= 10 /\ e.event_start < e.event_end
    /\ \A c \in EventCalls :
         LET r == AddEventOn(events, c[1], c[2], c[3])
             outOfRange == c[3] < 0 \/ c[3] > 10
             outOfOrder == Comparable(c[1], c[2]) /\ c[1][1] >= c[2][1]
         IN /\ (outOfRange \/ outOfOrder) => (r.error = "ValueError" /\ r.rows = events)
            /\ r.error # NoError => (r.rows = events /\ r.value = None)
            /\ r.error = NoError =>
                 /\ ~outOfRange /\ c[1][1] < c[2][1]
                 /\ Cardinality(r.rows) = Cardinality(events) + 1
    /\ (ret.op = "add_event" /\ (ret.args[3] < 0 \/ ret.args[3] > 10
                                   \/ (Comparable(ret.args[1], ret.args[2])
                                       /\ ret.args[1][1] >= ret.args[2][1]))) =>
         ret.error = "ValueError"

\* a store that holds an event, and the last call, with event_start = event_end, refused
C17_Witness ==
    /\ ret.op = "add_event"
    /\ ret.args[1][1] = ret.args[2][1]
    /\ ret.args[3] = 5
    /\ ret.error = "ValueError"
    /\ events # {}

(***************************************************************************)
(* C18: compute_window_intensity(window_start, window_end) returns (0, 0)  *)
(* when no stored event has event_start < window_end and                   *)
(* event_end > window_start, and otherwise the maximum intensity and the   *)
(* number of those events; the intensity is in [0, 1] and the count is     *)
(* >= 0. (Intensity in tenths.)                                            *)
(***************************************************************************)
C18_WindowIntensity ==
    ret.op = "compute_window_intensity" =>
      LET overlapping == {e \in events : e.event_start < ret.args[2] /\ e.event_end > ret.args[1]}
          intensity == ret.value[1][1]
          count == ret.value[1][2]
      IN /\ ret.error = NoError
         /\ overlapping = {} => (intensity = 0 /\ count = 0)
         /\ overlapping # {} =>
              /\ \E e \in overlapping : e.intensity = intensity
              /\ \A e \in overlapping : e.intensity <= intensity
              /\ count = Cardinality(overlapping)
         /\ 0 <= intensity /\ intensity <= 10
         /\ count >= 0

\* a window that one stored event overlaps and another only touches
C18_Witness ==
    /\ ret.op = "compute_window_intensity"
    /\ ret.args = <<168, 170>>
    /\ \E e \in events : e.event_end = 168
    /\ ret.value[1][2] = 1
    /\ ret.value[1][1] = 10

\* no event overlaps the window
C18_WitnessNone ==
    /\ ret.op = "compute_window_intensity"
    /\ events # {}
    /\ ret.value[1] = <<0, 0>>

(***************************************************************************)
(* C19: after any sequence of ingest_tweets calls, whatever lists the API  *)
(* returns (a tweet id returned again by a later call or twice within one  *)
(* call included), the store holds at most one RawTweet per tweet_id, no   *)
(* call fails, a tweet already stored is added no second time, and each    *)
(* call returns the number of tweets it newly stored.                      *)
(***************************************************************************)
C19_IngestIsIdempotent ==
    [][ret'.op = "ingest_tweets" =>
         /\ ret'.error = NoError
         /\ rawTweets \subseteq rawTweets'
         /\ Cardinality({t.tweet_id : t \in rawTweets'}) = Cardinality(rawTweets')
         /\ ret'.value = Some(Cardinality(rawTweets') - Cardinality(rawTweets))]_vars

\* what does hold: at most one RawTweet per tweet_id, and a call that does not fail
\* returns the number of tweets it newly stored
C19_AtMostOnePerId ==
    [][ret'.op = "ingest_tweets" =>
         /\ rawTweets \subseteq rawTweets'
         /\ Cardinality({t.tweet_id : t \in rawTweets'}) = Cardinality(rawTweets')
         /\ ret'.error = NoError =>
              ret'.value = Some(Cardinality(rawTweets') - Cardinality(rawTweets))
         /\ ret'.error # NoError => rawTweets' = rawTweets]_vars

\* a call whose list held one new tweet id twice: it failed and stored nothing
C19_BatchLost ==
    /\ ret.op = "ingest_tweets"
    /\ Len(ret.args) = 2
    /\ ret.args[1].id = ret.args[2].id
    /\ ret.error = "IntegrityError"
    /\ ~\E t \in rawTweets : t.tweet_id = ret.args[1].id

(***************************************************************************)
(* C20: in rolling_backtest, window i (counting from 0) has                *)
(* test_start = start_date + i * step hours, step being the hours from     *)
(* start_date to end_date divided by n_windows and rounded down; the       *)
(* window is fitted on exactly the observations timestamped in             *)
(* [test_start - train_days, test_start) and scored on exactly those in    *)
(* [test_start, test_start + test_hours), so that no observation is used   *)
(* both for fitting and for scoring in one window.                         *)
(***************************************************************************)
StepRoundedDown == (bt.args[1].end_date - bt.args[1].start_date) \div bt.args[1].n_windows

\* test_start of window w, counted from 1 as the results count
TestStartOf(w) == bt.args[1].start_date + (w - 1) * StepRoundedDown

\* seq lists exactly the hours of `hours`, each once
ListsExactly(seq, hours) == ToSet(seq) = hours /\ Len(seq) = Cardinality(hours)

C20_WindowGeometry ==
    Started =>
      /\ \A k \in 1..Len(bt.results) :
           LET r == bt.results[k] IN
           /\ r.test_start = TestStartOf(r.window)
           /\ r.train_start = r.test_start - 24 * bt.args[1].train_days
           /\ r.test_end = r.test_start + bt.args[1].test_hours
           /\ \E f \in 1..Len(bt.fitted_on) : bt.fitted_on[f][1] = r.window
           /\ \E c \in 1..Len(bt.scored_on) : bt.scored_on[c][1] = r.window
      /\ \A f \in 1..Len(bt.fitted_on) :
           LET w == bt.fitted_on[f][1] IN
           ListsExactly(bt.fitted_on[f][2],
                        HoursHeld(TestStartOf(w) - 24 * bt.args[1].train_days, TestStartOf(w)))
      /\ \A c \in 1..Len(bt.scored_on) :
           LET w == bt.scored_on[c][1] IN
           ListsExactly(bt.scored_on[c][2],
                        HoursHeld(TestStartOf(w), TestStartOf(w) + bt.args[1].test_hours))
      /\ \A f \in 1..Len(bt.fitted_on), c \in 1..Len(bt.scored_on) :
           bt.fitted_on[f][1] = bt.scored_on[c][1] =>
             ToSet(bt.fitted_on[f][2]) \cap ToSet(bt.scored_on[c][2]) = {}

\* a second window completed, fitted on 24 or more observations and scored on others,
\* with the store holding an observation at its test_start
C20_Witness ==
    /\ Started
    /\ \E k \in 1..Len(bt.results), f \in 1..Len(bt.fitted_on), c \in 1..Len(bt.scored_on) :
         /\ bt.results[k].window = 2
         /\ bt.fitted_on[f][1] = 2
         /\ bt.scored_on[c][1] = 2
         /\ Len(bt.fitted_on[f][2]) >= 24
         /\ bt.results[k].test_start \in ToSet(bt.scored_on[c][2])
         /\ bt.results[k].test_start > bt.args[1].start_date

\* a step that was rounded down: 1 hour over 2 windows, both windows at start_date
C20_WitnessRounded ==
    /\ Started
    /\ (bt.args[1].end_date - bt.args[1].start_date) % bt.args[1].n_windows # 0
    /\ \E k \in 1..Len(bt.results) :
         bt.results[k].window = 2 /\ bt.results[k].test_start = bt.args[1].start_date

(***************************************************************************)
(* C21: for any series of hourly observations, with or without missing     *)
(* hours, detect_regime_shift flags a timestamp t exactly when the ratio   *)
(* of the rolling standard deviation over the window_hours ending at t to  *)
(* the rolling standard deviation one window_hours earlier is defined and  *)
(* is greater than 1 + threshold_std or less than 1 / (1 + threshold_std); *)
(* the flagged timestamps are returned in increasing order.                *)
(***************************************************************************)
ShiftCall == ret.op = "detect_regime_shift" /\ ret.error = NoError

\* the observations the call read
ShiftFrame == GetBucketCounts(timeBuckets, ret.args[1], ret.args[2], "hourly")

\* the observations of the window_hours that end at hour t
HoursEndingAt(t) == {r \in ShiftFrame : r.timestamp > t - ret.args[3] /\ r.timestamp <= t}

\* the standard deviation of a set of observations, as the variance under its root;
\* not defined on fewer than 24
StdOf(rows) ==
    LET n == Cardinality(rows)
        s == SumCount(rows)
    IN IF n < MinPeriods THEN NaN ELSE <<n * SumSqCount(rows) - s * s, n * (n - 1)>>

ShiftsByHours ==
    {r.timestamp : r \in {x \in ShiftFrame :
        IsShift(StdOf(HoursEndingAt(x.timestamp)),
                StdOf(HoursEndingAt(x.timestamp - ret.args[3])), ret.args[4])}}

Increasing(seq) == \A k \in 1..(Len(seq) - 1) : seq[k] < seq[k + 1]

NoMissingHours ==
    \A r \in ShiftFrame, o \in ShiftFrame :
      \A h \in r.timestamp..o.timestamp : \E x \in ShiftFrame : x.timestamp = h

C21_ShiftsByHours ==
    (ShiftCall /\ Cardinality(ShiftFrame) >= ret.args[3]) =>
      /\ ToSet(ret.value[1]) = ShiftsByHours
      /\ Increasing(ret.value[1])

\* what does hold: the claim on a series without missing hours, and the order on any
C21_ShiftsWithoutMissingHours ==
    (ShiftCall /\ Cardinality(ShiftFrame) >= ret.args[3]) =>
      /\ NoMissingHours => ToSet(ret.value[1]) = ShiftsByHours
      /\ Increasing(ret.value[1])

\* shifts flagged on a series without missing hours
C21_Flagged ==
    /\ ShiftCall
    /\ NoMissingHours
    /\ Len(ret.value[1]) >= 2
    /\ ToSet(ret.value[1]) # {r.timestamp : r \in ShiftFrame}

(***************************************************************************)
(* C22: detect_regime_shift returns an empty list when the range holds     *)
(* fewer than window_hours observations, and it flags no timestamp unless  *)
(* both the rolling window that ends at the timestamp's row and the        *)
(* earlier window it is compared with hold at least 24 observations.       *)
(***************************************************************************)
\* the number of the row stamped t in the frame, in the order of time
RowOf(t) == Cardinality({r \in ShiftFrame : r.timestamp <= t})

\* the number of rows in the rolling window that ends at row j
RowsInWindow(j) == IF j < ret.args[3] THEN j ELSE ret.args[3]

C22_WitnessEmpty ==
    /\ ShiftCall
    /\ ShiftFrame # {}
    /\ Cardinality(ShiftFrame) < ret.args[3]
    /\ ret.value[1] = <<>>

(***************************************************************************)
(* C24: when at least 10 synthetic events are supplied, HawkesModel.fit    *)
(* does not raise, whatever the optimizer reports: the model is marked     *)
(* fitted with baseline > 0 and decay > 0, and a following predict         *)
(* succeeds.                                                               *)
(***************************************************************************)
HawkesFitCall == mret.op = "fit" /\ models.name = "hawkes"

C24_FitOnTenEventsReturns ==
    /\ (HawkesFitCall /\ SyntheticEvents(mret.args[1]) >= HawkesMinEvents) =>
         /\ mret.error = NoError
         /\ models.is_fitted
         /\ models.baseline[1] > 0
         /\ models.decay[1] > 0
    /\ (models.name = "hawkes" /\ mret.op = "predict" /\ mret.succeeded) =>
         mret.error = NoError

\* datetime objects with 10 synthetic events: the call raised AttributeError and the
\* model is as it was constructed
C24_FitOnTenEventsRaised ==
    /\ HawkesFitCall
    /\ mret.args[1].kind = "datetime"
    /\ SyntheticEvents(mret.args[1]) >= HawkesMinEvents
    /\ mret.error = "AttributeError"
    /\ models = NewModel("hawkes")

(***************************************************************************)
(* C25: _counts_to_events maps each bucket with count k > 0 at offset d    *)
(* from the first timestamp to exactly k event times d + (i / k) * 3600,   *)
(* i = 0..k-1, and each bucket with count 0 to none, and returns the event *)
(* times sorted in non-decreasing order; the number of events is the sum   *)
(* of the counts and every event lies in its bucket's interval             *)
(* [d, d + 3600). (Seconds, rounded down to whole seconds.)                *)
(***************************************************************************)
\* the input of a HawkesModel.fit call that got through _counts_to_events
EventsCall ==
    /\ HawkesFitCall
    /\ mret.args[1].kind = "datetime"
    /\ Len(mret.args[1].timestamps) > 0

\* <<k, i>>: event i (from 0) of bucket k
EventSlots(counts) == UNION { {<<k, i>> : i \in 0..(counts[k] - 1)} : k \in 1..Len(counts) }

\* v is d + (i / k) * 3600 for the slot, in whole seconds
IsEventOfSlot(v, slot, timestamps, counts) ==
    LET d == (timestamps[slot[1]] - timestamps[1]) * 3600
        k == counts[slot[1]]
    IN /\ k * (v - d) <= slot[2] * 3600
       /\ slot[2] * 3600 < k * (v - d + 1)
       /\ d <= v /\ v < d + 3600

C25_EventsSpreadOverBuckets ==
    EventsCall =>
      LET timestamps == mret.args[1].timestamps
          counts == mret.args[1].counts
          evts == CountsToEvents(timestamps, counts)
          slots == EventSlots(counts)
      IN /\ Len(evts) = SumSeq(counts)
         /\ Len(evts) = Cardinality(slots)
         /\ \A j \in 1..(Len(evts) - 1) : evts[j] <= evts[j + 1]
         /\ \A v \in ToSet(evts) :
              Cardinality({j \in 1..Len(evts) : evts[j] = v})
                = Cardinality({slot \in slots : IsEventOfSlot(v, slot, timestamps, counts)})
         /\ \A slot \in slots : \E v \in ToSet(evts) : IsEventOfSlot(v, slot, timestamps, counts)

\* buckets given out of the order of time, one of them empty: 10 events
C25_Witness ==
    /\ EventsCall
    /\ mret.args[1].timestamps = <<1, 0, 2>>
    /\ mret.args[1].counts = <<7, 3, 0>>
    /\ Len(CountsToEvents(mret.args[1].timestamps, mret.args[1].counts)) = 10
    /\ CountsToEvents(mret.args[1].timestamps, mret.args[1].counts)[1] = -3600

(***************************************************************************)
(* C26: for any fitted state and any input timestamps, every lower bound   *)
(* predict returns is >= 0 in the three variants, and in the seasonal      *)
(* ARIMA variant the point forecast and the upper bound are >= 0 as well.  *)
(***************************************************************************)
PredictReturned == mret.op = "predict" /\ mret.error = NoError

AllAtLeastZero(array) == \A i \in 1..Len(array) : array[i] >= 0

C26_BoundsAtLeastZero ==
    PredictReturned =>
      /\ mret.value[1].finite
      /\ AllAtLeastZero(mret.value[1].lower)
      /\ models.name = "sarimax" =>
           (AllAtLeastZero(mret.value[1].predictions) /\ AllAtLeastZero(mret.value[1].upper))

\* what does hold: the bounds are clamped whenever the library's forecast is a number
C26_ClampedWhenFinite ==
    (PredictReturned /\ mret.value[1].finite) =>
      /\ AllAtLeastZero(mret.value[1].lower)
      /\ models.name = "sarimax" =>
           (AllAtLeastZero(mret.value[1].predictions) /\ AllAtLeastZero(mret.value[1].upper))

\* a forecast of NaN returned by predict of the seasonal ARIMA variant, and a negative
\* forecast clamped
C26_NaNReturned ==
    /\ PredictReturned
    /\ models.name = "sarimax"
    /\ ~mret.value[1].finite

C26_NegativeClamped ==
    /\ PredictReturned
    /\ models.name = "sarimax"
    /\ mret.value[1].finite
    /\ \E i \in 1..Len(mret.value[1].predictions) :
         mret.value[1].predictions[i] = 0 /\ mret.value[1].upper[i] > 0

(***************************************************************************)
(* C29: in rolling_backtest, which refits one model instance window after  *)
(* window, every recorded window result is scored from predictions made    *)
(* after a fit on that same window's training range returned normally: at  *)
(* the step that appends a result the instance holds the fit on the        *)
(* training rows of that window, never one left over from an earlier       *)
(* window.                                                                 *)
(***************************************************************************)
\* the training rows of the window the loop is at, as handed to model.fit
TrainingOfWindow == ColumnValues(TrainRows(timeBuckets, bt.args[1], bt.i))

ResultRecorded == Len(bt'.results) > Len(bt.results)

C29_ScoredAfterFitOnSameWindow ==
    [][ResultRecorded =>
         /\ Len(bt'.results) = Len(bt.results) + 1
         /\ bt'.results[Len(bt'.results)].window = bt.i + 1
         /\ models'.is_fitted
         /\ models'.result # None
         /\ models'.result[1].trained_on = TrainingOfWindow
         /\ bt'.fitted_on[Len(bt'.fitted_on)] = <<bt.i + 1, TrainingOfWindow.timestamps>>
         /\ bt'.scored_on[Len(bt'.scored_on)][1] = bt.i + 1]_vars

\* a window recorded after an earlier fit had returned and a later one had raised
C29_Witness ==
    /\ Len(bt.results) >= 2
    /\ \E w \in 1..Len(bt.caught) :
         /\ bt.results[1].window < bt.caught[w]
         /\ bt.caught[w] < bt.results[Len(bt.results)].window
    /\ models.is_fitted

(***************************************************************************)
(* C28: after compute_time_buckets(start, end, g) completes, for every     *)
(* k >= 0 with start + k*delta < end (delta = 1 hour or 1 day) there is a  *)
(* bucket keyed (start + k*delta, g) whose count is the number of          *)
(* non-deleted raw tweets created in [start + k*delta, start + (k+1)*delta)*)
(* at that moment, replacing any count stored under that key before;       *)
(* every other bucket is unchanged, and the call returns the number of     *)
(* buckets visited.                                                        *)
(***************************************************************************)
\* the bucket starts start + k*delta below end
KeysOf(start, end, delta) ==
    {c \in start..(end - 1) : \E k \in 0..(end - start) : c = start + k * delta}

TweetsCreatedIn(lo, hi) ==
    {t \in rawTweets : ~t.is_deleted /\ lo <= t.created_at /\ t.created_at < hi}

C28_WitnessReplaced ==
    /\ ret.op = "compute_time_buckets"
    /\ ret.args = <<168, 169, "hourly">>
    /\ ret.value = Some(1)
    /\ \E b \in timeBuckets : b.granularity = "hourly" /\ b.bucket_start = 168 /\ b.tweet_count = 1
    /\ \E b \in timeBuckets : b.granularity = "hourly" /\ b.bucket_start = 167 /\ b.tweet_count = 0

(***************************************************************************)
(* C30: a store operation run inside get_db_session is all-or-nothing: if  *)
(* compute_time_buckets or an ingest_tweets batch raises partway through,  *)
(* the session is rolled back and none of that call's bucket or tweet      *)
(* writes is visible afterwards, and on normal exit all of them are        *)
(* committed together.                                                     *)
(***************************************************************************)
RunEnds(r) == runs[r].pc = "loop" /\ runs'[r].pc = "done"

WrittenBy(run) == run.updated \cup run.inserted

C30_SessionsAreAllOrNothing ==
    [][/\ \A r \in RunIds :
            RunEnds(r) =>
              IF runs'[r].error # NoError
              THEN timeBuckets' = timeBuckets /\ runs'[r].value = None
              ELSE /\ WrittenBy(runs[r]) \subseteq timeBuckets'
                   /\ timeBuckets' \subseteq timeBuckets \cup WrittenBy(runs[r])
                   /\ \A b \in timeBuckets \ timeBuckets' :
                        \E w \in WrittenBy(runs[r]) : BucketKey(w) = BucketKey(b)
       /\ (\A r \in RunIds : ~RunEnds(r)) => timeBuckets' = timeBuckets
       /\ ret' # ret =>
            /\ ret'.op = "ingest_tweets"
            /\ IF ret'.error # NoError
               THEN rawTweets' = rawTweets
               ELSE rawTweets' = rawTweets \cup
                      {NewTweet(ret'.args[i]) : i \in {j \in 1..Len(ret'.args) :
                         \A t \in rawTweets : t.tweet_id # ret'.args[j].id}}]_vars

\* a run rolled back at its commit with none of its buckets in the table, and a batch
\* rolled back with none of its tweets in the table
C30_Witness ==
    /\ \E r \in RunIds :
         /\ runs[r].pc = "done" /\ runs[r].error = "IntegrityError"
         /\ ~\E b \in timeBuckets : b.bucket_start = runs[r].args[1]
    /\ ret.op = "ingest_tweets" /\ ret.error = "IntegrityError"
    /\ ~\E t \in rawTweets : t.tweet_id \in {5, 6}

\* a run and a batch committed whole
C30_WitnessCommitted ==
    /\ \E r \in RunIds :
         /\ runs[r].pc = "done" /\ runs[r].error = NoError /\ runs[r].value = Some(3)
         /\ Cardinality(timeBuckets) >= 3
    /\ ret.op = "ingest_tweets" /\ ret.value = Some(1)
    /\ \E t \in rawTweets : t.tweet_id = 4

(***************************************************************************)
(* C27: compute_features_bulk terminates for any start_time, end_time and  *)
(* granularity_hours, with one feature computation per step (start,        *)
(* start + step, ...) up to end_time; a reference time with insufficient   *)
(* data yields an absent result that is not counted and does not stop the  *)
(* loop: the call returns the count of the features computed.              *)
(***************************************************************************)
BulkCall == ret.op = "compute_features_bulk"

\* start, start + step, ... up to end_time, in order
StepsOf(start_time, end_time, step) ==
    IF start_time > end_time THEN <<>>
    ELSE [k \in 1..((end_time - start_time) \div step + 1) |-> start_time + (k - 1) * step]

C27_BulkComputesEveryStep ==
    (BulkCall /\ ret.args[3] > 0) =>
      /\ ret.error = NoError
      /\ ret.values = Some(StepsOf(ret.args[1], ret.args[2], ret.args[3]))
      /\ ret.value # None
      /\ ret.value[1] <= Len(ret.values[1])

\* what does hold: a call with start_time <= end_time ends at its first reference time
\* with the AttributeError of compute_features and no feature stored; any other call
\* returns 0
C27_BulkEndsAtFirstStep ==
    BulkCall =>
      IF ret.args[1] <= ret.args[2]
      THEN /\ ret.error = "AttributeError"
           /\ ret.value = None
           /\ ret.values = Some(<<ret.args[1]>>)
           /\ features = {}
      ELSE ret.error = NoError /\ ret.value = Some(0) /\ ret.values = Some(<<>>)

\* three steps asked for, one made
C27_StoppedAtFirstStep ==
    /\ BulkCall
    /\ ret.args = <<168, 170, 1>>
    /\ ret.error = "AttributeError"
    /\ ret.values = Some(<<168>>)
    /\ rawTweets # {}

====
